---------------------------- MODULE Spec2Model ----------------------------
(***************************************************************************)
(* A model of the prediction engine of LottoGenius Pro:                    *)
(*   src/lottery-data.js  LotteryDataAnalyzer (the statistics)             *)
(*   src/algorithms.js    PredictionEngine (strategies, weightedSelection, *)
(*                        calculateConfidence, generateMultipleSets)       *)
(*                                                                         *)
(* JavaScript numbers are modelled as exact rationals <<n, d>> with d > 0  *)
(* in lowest terms, plus the three non-finite values NaN = <<0,0>>,        *)
(* +Infinity = <<1,0>> and -Infinity = <<-1,0>>.  Counts that the code     *)
(* keeps as integers stay integers and are converted where the code        *)
(* divides.  Math.random() is an input: every use draws from a finite set  *)
(* of representatives that covers each outcome the code can distinguish.   *)
(***************************************************************************)
EXTENDS Integers, Sequences, FiniteSets, TLC

VARIABLES
    game,    \* this.game: [balls, pick]
    data,    \* HISTORICAL_DATA[this.gameKey]
    analyzerData, \* this.analyzer.data: the array HISTORICAL_DATA[gameKey]
             \* held when the engine was constructed
    ws,      \* the activation of weightedSelection
    delta,   \* the activation of deltaSystemPrediction
    gen,     \* the activation of generateMultipleSets
    ret,     \* what the last completed call returned
    thisWeights, \* this.weights
    call     \* the activation of a strategy that has a loop of its own

vars == <<game, data, analyzerData, ws, delta, gen, ret, thisWeights, call>>

(***************************************************************************)
(* Bounds of the model.                                                    *)
(***************************************************************************)
\* the largest ball count N of the games of Spec
MaxBalls == 4

\* the largest pick count K of the games of Spec
MaxPick == 3

\* the ball count of the game of SpecGen
GenBalls == 5

\* the pick count of the game of SpecGen
GenPick == 4

\* the longest dataset of SpecGen
GenDraws == 1

\* the largest ball count of the games of SpecWS
WSBalls == 4

\* the longest dataset of Spec
MaxDraws == 2

\* the largest weight handed to weightedSelection in SpecWS
MaxWeight == 1

\* the largest count handed to generateMultipleSets
MaxCount == 2

\* how many iterations beyond the needed ones a loop that does not
\* end is followed
MaxSpin == 2

\* the ball count of the game of SpecGA
GABalls == 3

\* the pick count of the game of SpecGA
GAPick == 2

\* the longest dataset of SpecGA
GADraws == 1

\* the populationSize handed to geneticAlgorithmPrediction
GAPopulation == 5

\* the largest generations handed to geneticAlgorithmPrediction
MaxGenerations == 2

\* the largest iterations handed to monteCarloSimulation
MaxIterations == 2

\* the balls of the game of the hybrid calls
HybBalls == 3

\* the numbers picked in the game of the hybrid calls
HybPick == 2

\* the longest dataset of the hybrid calls
HybDraws == 1

\* the game and the dataset of the confidence calls on identical draws:
\* balls, numbers picked, and the most copies of the draw 1, 2, ..., pick
ConfBalls == 10

ConfPick == 3

ConfDraws == 5

\* the games and the longest dataset of the analyzer calls
AnBalls == 4

AnPick == 2

AnDraws == 2

\* the ball count of the pick-1 game and the longest dataset of the
\* statisticalEquilibriumPrediction calls
StatBalls == 32

StatDraws == 1

\* the largest ball count of the games whose dataset is replaced
UpdBalls == 3

\* the keys the setWeights calls name
SetKeys == {"frequency", "statistical"}

(***************************************************************************)
(* Program constants.                                                      *)
(***************************************************************************)
MaxAttempts == 100

DeltaStartRange == 15

DeltaAltRange == 10

DeltaTop == 10

RecentDraws == 3

ConfidencePairs == 20

PatternPairs == 30

\* getCommonPairs(50) of evaluateFitness
FitnessPairs == 50

\* statisticalEquilibriumPrediction: const maxAttempts = 1000
maxAttempts == 1000

\* statisticalEquilibriumPrediction: const sumTolerance = 30
sumTolerance == 30

\* getSumDistribution: const rangeSize = 20
rangeSize == 20

(***************************************************************************)
(* Generic helpers.                                                        *)
(***************************************************************************)
Range(s) == {s[i] : i \in DOMAIN s}

Abs(x) == IF x < 0 THEN -x ELSE x

RECURSIVE GCD(_, _)
GCD(a, b) == IF b = 0 THEN a ELSE GCD(b, a % b)

RECURSIVE SumSeq(_)
SumSeq(s) == IF s = <<>> THEN 0 ELSE Head(s) + SumSeq(Tail(s))

\* Array.prototype.filter
RECURSIVE FilterOdd(_)
FilterOdd(s) ==
    IF s = <<>> THEN <<>>
    ELSE IF Head(s) % 2 = 1 THEN <<Head(s)>> \o FilterOdd(Tail(s))
         ELSE FilterOdd(Tail(s))

\* Array.prototype.includes
Includes(s, x) == \E i \in DOMAIN s : s[i] = x

IsDistinct(s) == \A i, j \in DOMAIN s : i # j => s[i] # s[j]

IsAscending(s) == \A i \in 1..(Len(s) - 1) : s[i] < s[i + 1]

\* numbers.sort((a, b) => a - b): insertion into an ascending sequence
RECURSIVE InsertAsc(_, _)
InsertAsc(sorted, x) ==
    IF sorted = <<>> THEN <<x>>
    ELSE IF x < Head(sorted) THEN <<x>> \o sorted
         ELSE <<Head(sorted)>> \o InsertAsc(Tail(sorted), x)

RECURSIVE SortAsc(_)
SortAsc(s) ==
    IF s = <<>> THEN <<>>
    ELSE InsertAsc(SortAsc(SubSeq(s, 1, Len(s) - 1)), s[Len(s)])

RECURSIVE SetToSeqAsc(_)
SetToSeqAsc(S) ==
    IF S = {} THEN <<>>
    ELSE LET m == CHOOSE x \in S : \A y \in S : x <= y
         IN  <<m>> \o SetToSeqAsc(S \ {m})

\* entries.sort((a, b) => b[1] - a[1]) on <<key, value>> entries with integer
\* values: Array.prototype.sort is stable, so an entry goes behind every
\* entry of an equal or larger value that precedes it in the input.
RECURSIVE InsertDesc(_, _)
InsertDesc(sorted, e) ==
    IF sorted = <<>> THEN <<e>>
    ELSE IF e[2] > Head(sorted)[2] THEN <<e>> \o sorted
         ELSE <<Head(sorted)>> \o InsertDesc(Tail(sorted), e)

RECURSIVE SortDesc(_)
SortDesc(s) ==
    IF s = <<>> THEN <<>>
    ELSE InsertDesc(SortDesc(SubSeq(s, 1, Len(s) - 1)), s[Len(s)])

\* entries.sort((a, b) => a[1] - b[1]), stable: an entry goes behind every
\* entry of an equal or smaller value that precedes it in the input.
RECURSIVE InsertAscEntry(_, _)
InsertAscEntry(sorted, e) ==
    IF sorted = <<>> THEN <<e>>
    ELSE IF e[2] < Head(sorted)[2] THEN <<e>> \o sorted
         ELSE <<Head(sorted)>> \o InsertAscEntry(Tail(sorted), e)

RECURSIVE SortAscEntries(_)
SortAscEntries(s) ==
    IF s = <<>> THEN <<>>
    ELSE InsertAscEntry(SortAscEntries(SubSeq(s, 1, Len(s) - 1)), s[Len(s)])

\* Array.prototype.slice(0, n)
Slice(s, n) == SubSeq(s, 1, IF n < Len(s) THEN n ELSE Len(s))

(***************************************************************************)
(* JavaScript numbers.                                                     *)
(***************************************************************************)
NaN == <<0, 0>>

PosInf == <<1, 0>>

NegInf == <<-1, 0>>

IsNaN(x) == x = NaN

IsFinite(x) == x[2] > 0

Norm(n, d) ==
    IF d = 0 THEN (IF n = 0 THEN NaN ELSE IF n > 0 THEN PosInf ELSE NegInf)
    ELSE LET s == IF d < 0 THEN -1 ELSE 1
             g == GCD(Abs(n), Abs(d))
         IN  <<(s * n) \div g, (s * d) \div g>>

R(n) == <<n, 1>>

RAdd(x, y) ==
    IF IsNaN(x) \/ IsNaN(y) THEN NaN
    ELSE IF ~IsFinite(x) THEN (IF ~IsFinite(y) /\ y # x THEN NaN ELSE x)
    ELSE IF ~IsFinite(y) THEN y
    ELSE Norm(x[1] * y[2] + y[1] * x[2], x[2] * y[2])

RNeg(x) == <<-x[1], x[2]>>

RSub(x, y) == RAdd(x, RNeg(y))

RMul(x, y) ==
    IF IsNaN(x) \/ IsNaN(y) THEN NaN
    ELSE IF ~IsFinite(x) \/ ~IsFinite(y)
         THEN Norm(x[1] * y[1], 0)
    ELSE Norm(x[1] * y[1], x[2] * y[2])

\* x / y: 0/0 is NaN, a non-zero x over 0 is an infinity of x's sign
RDiv(x, y) ==
    IF IsNaN(x) \/ IsNaN(y) THEN NaN
    ELSE IF ~IsFinite(y) THEN (IF IsFinite(x) THEN R(0) ELSE NaN)
    ELSE IF ~IsFinite(x) THEN (IF y[1] < 0 THEN RNeg(x) ELSE x)
    ELSE IF y[1] = 0 THEN Norm(x[1], 0)
    ELSE Norm(x[1] * y[2], x[2] * y[1])

\* x < y, x <= y, x === y: every comparison with NaN is false
RLt(x, y) ==
    /\ ~IsNaN(x) /\ ~IsNaN(y)
    /\ IF IsFinite(x) /\ IsFinite(y) THEN x[1] * y[2] < y[1] * x[2]
       ELSE IF ~IsFinite(x) /\ ~IsFinite(y) THEN x[1] < y[1]
       ELSE IF ~IsFinite(x) THEN x[1] < 0
       ELSE y[1] > 0

REq(x, y) == ~IsNaN(x) /\ ~IsNaN(y) /\ x = y

RLe(x, y) == RLt(x, y) \/ REq(x, y)

\* Math.min(x, y): NaN when either argument is NaN
RMin(x, y) ==
    IF IsNaN(x) \/ IsNaN(y) THEN NaN ELSE IF RLt(y, x) THEN y ELSE x

RAbs(x) == <<Abs(x[1]), x[2]>>

\* Math.round(x): floor(x + 0.5); NaN and the infinities are returned as is
RRound(x) ==
    IF ~IsFinite(x) THEN x ELSE R((2 * x[1] + x[2]) \div (2 * x[2]))

IsInteger(x) == IsFinite(x) /\ x[2] = 1

RECURSIVE RSum(_)
RSum(s) == IF s = <<>> THEN R(0) ELSE RAdd(Head(s), RSum(Tail(s)))

(***************************************************************************)
(* Strings, as sequences of character codes ('0' is 48, '-' is 45).        *)
(***************************************************************************)
Dash == 45

RECURSIVE ToStr(_)
ToStr(n) ==
    IF n < 10 THEN <<48 + n>> ELSE ToStr(n \div 10) \o <<48 + (n % 10)>>

\* numbers.join('-')
RECURSIVE Join(_)
Join(s) ==
    IF s = <<>> THEN <<>>
    ELSE IF Len(s) = 1 THEN ToStr(s[1])
    ELSE ToStr(Head(s)) \o <<Dash>> \o Join(Tail(s))

\* Number(str) of a string of decimal digits
RECURSIVE ToNumber(_)
ToNumber(str) ==
    IF str = <<>> THEN 0
    ELSE 10 * ToNumber(SubSeq(str, 1, Len(str) - 1)) + (str[Len(str)] - 48)

\* str.split('-').map(Number)
RECURSIVE SplitNumbers(_, _)
SplitNumbers(str, cur) ==
    IF str = <<>> THEN <<ToNumber(cur)>>
    ELSE IF Head(str) = Dash
         THEN <<ToNumber(cur)>> \o SplitNumbers(Tail(str), <<>>)
    ELSE SplitNumbers(Tail(str), Append(cur, Head(str)))

(***************************************************************************)
(* The data model: a game is [balls, pick]; a draw is [numbers], ascending *)
(* (every writer of HISTORICAL_DATA sorts the numbers of a draw); a        *)
(* dataset is a sequence of draws, most recent first.                      *)
(***************************************************************************)
Games ==
    {g \in [balls : 2..MaxBalls, pick : 1..MaxPick] : g.pick < g.balls}

\* generateRandomNumbers(max, count), sorted: the ascending count-subsets
Combos(n, k) ==
    {s \in [1..k -> 1..n] : \A i \in 1..(k - 1) : s[i] < s[i + 1]}

Draws(g) == {[numbers |-> c] : c \in Combos(g.balls, g.pick)}

\* generateRandomNumbers(): Array.from of a Set, in insertion order
generateRandomNumbers(g) ==
    {numbers \in [1..g.pick -> 1..g.balls] : IsDistinct(numbers)}

RECURSIVE SeqsUpTo(_, _)
SeqsUpTo(S, n) ==
    IF n = 0 THEN {<<>>}
    ELSE LET shorter == SeqsUpTo(S, n - 1)
         IN  shorter \cup {Append(s, x) : s \in shorter, x \in S}

Datasets(g) == SeqsUpTo(Draws(g), MaxDraws)

(***************************************************************************)
(* LotteryDataAnalyzer.                                                    *)
(***************************************************************************)
\* the number of occurrences of n in the draws of d
RECURSIVE CountIn(_, _)
CountIn(d, n) ==
    IF d = <<>> THEN 0
    ELSE (IF Includes(Head(d).numbers, n) THEN 1 ELSE 0) + CountIn(Tail(d), n)

getNumberFrequency(d, g) == [n \in 1..g.balls |-> CountIn(d, n)]

getExpectedFrequency(d, g) == RDiv(R(Len(d) * g.pick), R(g.balls))

\* Object.entries(obj) of an object with the integer keys 1..n: ascending
Entries(f, n) == [i \in 1..n |-> <<i, f[i]>>]

getHotNumbers(d, g, count) ==
    LET sorted == Slice(SortDesc(Entries(getNumberFrequency(d, g), g.balls)), count)
    IN  [i \in 1..Len(sorted) |->
            [number |-> sorted[i][1], frequency |-> sorted[i][2]]]

getColdNumbers(d, g, count) ==
    LET sorted == Slice(SortAscEntries(Entries(getNumberFrequency(d, g), g.balls)),
                        count)
    IN  [i \in 1..Len(sorted) |->
            [number |-> sorted[i][1], frequency |-> sorted[i][2]]]

\* the keys `${a}-${b}` of one draw, in the order of the loops over i < j
PairKeysOfDraw(numbers) ==
    LET n == Len(numbers)
        RECURSIVE From(_, _)
        From(i, j) ==
            IF i > n THEN <<>>
            ELSE IF j > n THEN From(i + 1, i + 2)
            ELSE <<Join(<<numbers[i], numbers[j]>>)>> \o From(i, j + 1)
    IN  From(1, 2)

RECURSIVE PairKeys(_)
PairKeys(d) ==
    IF d = <<>> THEN <<>>
    ELSE PairKeysOfDraw(Head(d).numbers) \o PairKeys(Tail(d))

\* obj[key] = (obj[key] || 0) + 1 on an object kept as its entries, in
\* insertion order (the order of Object.entries for non-index keys)
Increment(entries, key) ==
    IF \E i \in DOMAIN entries : entries[i][1] = key
    THEN [i \in DOMAIN entries |->
            IF entries[i][1] = key THEN <<key, entries[i][2] + 1>>
            ELSE entries[i]]
    ELSE Append(entries, <<key, 1>>)

RECURSIVE CountKeys(_, _)
CountKeys(keys, entries) ==
    IF keys = <<>> THEN entries
    ELSE CountKeys(Tail(keys), Increment(entries, Head(keys)))

getCommonPairs(d, count) ==
    LET sorted == Slice(SortDesc(CountKeys(PairKeys(d), <<>>)), count)
    IN  [i \in 1..Len(sorted) |->
            [numbers |-> SplitNumbers(sorted[i][1], <<>>),
             frequency |-> sorted[i][2]]]

\* the gaps between neighbours of the sorted draws, in order
RECURSIVE Gaps(_)
Gaps(d) ==
    IF d = <<>> THEN <<>>
    ELSE LET sorted == SortAsc(Head(d).numbers)
         IN  [i \in 1..(Len(sorted) - 1) |-> sorted[i + 1] - sorted[i]]
             \o Gaps(Tail(d))

\* getDeltaAnalysis: the frequency object has integer keys, so its entries
\* come in ascending key order
getDeltaAnalysis(d, g) ==
    LET gaps == Gaps(d)
        keys == SetToSeqAsc(Range(gaps))
    IN  [i \in 1..Len(keys) |->
            <<keys[i], Cardinality({j \in DOMAIN gaps : gaps[j] = keys[i]})>>]

(***************************************************************************)
(* weightedSelection(weights, count).  `available` is a function from the  *)
(* keys of the object to their weights; for-in and Object.values visit     *)
(* integer keys in ascending order.                                        *)
(***************************************************************************)
\* the keys visited from the largest to the smallest
KeysDescending(available) ==
    LET keys == SetToSeqAsc(DOMAIN available)
    IN  [i \in 1..Len(keys) |-> keys[Len(keys) + 1 - i]]

Keys(available) == SetToSeqAsc(DOMAIN available)

\* Object.values(available).reduce((a, b) => a + b, 0)
WSTotal(available) ==
    LET keys == Keys(available)
    IN  RSum([i \in 1..Len(keys) |-> available[keys[i]]])

\* the for-in loop: rand -= available[num]; the first num with rand <= 0 is
\* selected; 0 when the loop ends without selecting
RECURSIVE WSScan(_, _, _)
WSScan(available, keys, rand) ==
    IF keys = <<>> THEN 0
    ELSE LET left == RSub(rand, available[Head(keys)])
         IN  IF RLe(left, R(0)) THEN Head(keys)
             ELSE WSScan(available, Tail(keys), left)

WSPick(available, rand) == WSScan(available, Keys(available), rand)

\* the values Math.random() * total can take, one for each way the scan can
\* see it: 0, every partial sum below the total, and a point strictly inside
\* every step of the partial sums; total itself when it is not a positive
\* finite number (NaN stays NaN)
RandTimes(available, total) ==
    IF ~(IsFinite(total) /\ RLt(R(0), total)) THEN {RMul(R(0), total), total}
    ELSE LET keys == Keys(available)
             cum(i) == RSum([j \in 1..i |-> available[keys[j]]])
             half == <<1, 2>>
         IN  {R(0)}
             \cup {cum(i) : i \in {j \in 1..Len(keys) : RLt(cum(j), total)}}
             \cup {RMul(half, RAdd(cum(i - 1), cum(i))) :
                     i \in {j \in 1..Len(keys) : RLt(cum(j - 1), cum(j))}}

\* WSFallback without its test !selected.includes(i)
WSFallbackAll(available, selected, balls) ==
    [n \in DOMAIN available \cup (1..balls) |->
        IF n \in 1..balls THEN R(1) ELSE available[n]]

\* the fallback: available[i] = 1 for every i in 1..balls not yet selected
WSFallback(available, selected, balls) ==
    [n \in DOMAIN available \cup {i \in 1..balls : ~Includes(selected, i)} |->
        IF n \in 1..balls /\ ~Includes(selected, n) THEN R(1) ELSE available[n]]

\* delete available[num]
Delete(available, num) == [n \in DOMAIN available \ {num} |-> available[n]]

WSIdle == [pc |-> "idle"]

WSStart(algo, weights, count) ==
    [pc |-> "loop", algo |-> algo, weights |-> weights, count |-> count,
     selected |-> <<>>, available |-> weights, iter |-> 0]

NoRet == [op |-> "none"]

\* one iteration of while (selected.length < count): the pairs
\* <<available, selected>> it can end with, over the random draws; an
\* iteration in which the scan selects nothing changes neither
WSIterate(available, selected, balls) ==
    LET total == WSTotal(available)
    IN  IF REq(total, R(0))
        THEN {<<WSFallback(available, selected, balls), selected>>}
        ELSE {LET num == WSPick(available, rand)
              IN  IF num # 0
                  THEN <<Delete(available, num),
                         Append(selected, ToNumber(ToStr(num)))>>
                  ELSE <<available, selected>> :
                rand \in RandTimes(available, total)}

WSLoop ==
    /\ ws.pc = "loop"
    /\ Len(ws.selected) < ws.count
    /\ ws.iter < ws.count + MaxSpin
    /\ \E out \in WSIterate(ws.available, ws.selected, game.balls) :
        ws' = [ws EXCEPT !.available = out[1], !.selected = out[2],
                         !.iter = @ + 1]
    /\ UNCHANGED <<game, data, analyzerData, delta, gen, ret, thisWeights, call>>

\* return selected.sort((a, b) => a - b)
WSReturn ==
    /\ ws.pc = "loop"
    /\ Len(ws.selected) >= ws.count
    /\ ws' = [ws EXCEPT !.pc = "done", !.selected = SortAsc(@)]
    /\ ret' = [op |-> ws.algo, numbers |-> ws'.selected]
    /\ UNCHANGED <<game, data, analyzerData, delta, gen, thisWeights, call>>

\* the lists weightedSelection can return, over all random draws: the
\* iterations that select nothing are repeated, so a call that can only
\* repeat them returns nothing
RECURSIVE WSResults(_, _, _, _)
WSResults(available, selected, count, balls) ==
    IF Len(selected) >= count THEN {SortAsc(selected)}
    ELSE UNION {WSResults(out[1], out[2], count, balls) :
                    out \in WSIterate(available, selected, balls)
                            \ {<<available, selected>>}}

weightedSelection(weights, count, balls) ==
    WSResults(weights, <<>>, count, balls)

\* the lists weightedSelection can return, each paired with whether the run
\* that returns it went through the fallback branch of lines 551-559
RECURSIVE WSRuns(_, _, _, _, _)
WSRuns(available, selected, count, balls, fellBack) ==
    IF Len(selected) >= count THEN {<<SortAsc(selected), fellBack>>}
    ELSE LET nowFalls == REq(WSTotal(available), R(0))
         IN  UNION {WSRuns(out[1], out[2], count, balls, fellBack \/ nowFalls) :
                        out \in WSIterate(available, selected, balls)
                                \ {<<available, selected>>}}

(***************************************************************************)
(* The strategies.                                                         *)
(***************************************************************************)
\* frequencyBasedPrediction: weights[num] = frequency[num] / totalFreq
FrequencyWeights(d, g) ==
    LET frequency == getNumberFrequency(d, g)
        totalFreq == SumSeq(frequency)
    IN  [n \in 1..g.balls |-> RDiv(R(frequency[n]), R(totalFreq))]

\* the smallest index (from 0) of a draw holding n, Len(d) when there is none
LastSeen(d, n) ==
    LET at == {i \in DOMAIN d : Includes(d[i].numbers, n)}
    IN  IF at = {} THEN Len(d)
        ELSE (CHOOSE i \in at : \A j \in at : i <= j) - 1

\* overdueBasedPrediction: scores[i] = Math.min(lastSeen[i] / (balls / pick), 3)
OverdueScores(d, g) ==
    LET expectedInterval == RDiv(R(g.balls), R(g.pick))
    IN  [n \in 1..g.balls |->
            RMin(RDiv(R(LastSeen(d, n)), expectedInterval), R(3))]

\* pairScores[`${sel}-${num}`] || 0, pairScores holding every pair under
\* both `${a}-${b}` and `${b}-${a}`, a later pair overwriting an earlier one
PairScore(pairs, sel, num) ==
    LET key == Join(<<sel, num>>)
        hits == {i \in DOMAIN pairs :
                    \/ Join(<<pairs[i].numbers[1], pairs[i].numbers[2]>>) = key
                    \/ Join(<<pairs[i].numbers[2], pairs[i].numbers[1]>>) = key}
    IN  IF hits = {} THEN 0
        ELSE pairs[CHOOSE i \in hits : \A j \in hits : j <= i].frequency

\* the mutant of PatternBest: score >= bestScore, the last number of the
\* largest score
RECURSIVE PatternBestLast(_, _, _, _, _, _, _)
PatternBestLast(frequency, pairs, selected, balls, num, bestNext, bestScore) ==
    IF num > balls THEN bestNext
    ELSE IF Includes(selected, num)
         THEN PatternBestLast(frequency, pairs, selected, balls, num + 1,
                              bestNext, bestScore)
    ELSE LET score == frequency[num] + SumSeq([i \in DOMAIN selected |->
                          PairScore(pairs, selected[i], num) * 2])
         IN  IF score >= bestScore
             THEN PatternBestLast(frequency, pairs, selected, balls, num + 1,
                                  num, score)
             ELSE PatternBestLast(frequency, pairs, selected, balls, num + 1,
                                  bestNext, bestScore)

\* the inner for loop of patternBasedPrediction: the first unselected number
\* of the largest score, 0 (null) when there is none
RECURSIVE PatternBest(_, _, _, _, _, _, _)
PatternBest(frequency, pairs, selected, balls, num, bestNext, bestScore) ==
    IF num > balls THEN bestNext
    ELSE IF Includes(selected, num)
         THEN PatternBest(frequency, pairs, selected, balls, num + 1,
                          bestNext, bestScore)
    ELSE LET score == frequency[num] + SumSeq([i \in DOMAIN selected |->
                          PairScore(pairs, selected[i], num) * 2])
         IN  IF score > bestScore
             THEN PatternBest(frequency, pairs, selected, balls, num + 1,
                              num, score)
             ELSE PatternBest(frequency, pairs, selected, balls, num + 1,
                              bestNext, bestScore)

\* while (selected.length < pick): the list is returned short when an
\* iteration finds no bestNext, where the code would repeat it for ever
RECURSIVE PatternGrow(_, _, _, _)
PatternGrow(frequency, pairs, selected, g) ==
    IF Len(selected) >= g.pick THEN selected
    ELSE LET bestNext == PatternBest(frequency, pairs, selected, g.balls,
                                     1, 0, -1)
         IN  IF bestNext = 0 THEN selected
             ELSE PatternGrow(frequency, pairs, Append(selected, bestNext), g)

PatternSelected(d, g) ==
    LET frequency == getNumberFrequency(d, g)
        sorted == SortDesc(Entries(frequency, g.balls))
    IN  PatternGrow(frequency, getCommonPairs(d, PatternPairs),
                    <<ToNumber(ToStr(sorted[1][1]))>>, g)

patternBasedPrediction(d, g) == SortAsc(PatternSelected(d, g))

\* generateCombinations(arr, size): combine(start, combo)
RECURSIVE Combine(_, _, _, _)
Combine(arr, size, start, combo) ==
    IF Len(combo) = size THEN <<combo>>
    ELSE LET RECURSIVE For(_)
             For(i) ==
                 IF i > Len(arr) THEN <<>>
                 ELSE Combine(arr, size, i + 1, Append(combo, arr[i]))
                      \o For(i + 1)
         IN  For(start)

generateCombinations(arr, size) == Combine(arr, size, 1, <<>>)

\* if (!keyNumbers): the numbers of getHotNumbers(pick + 3)
DefaultKeyNumbers(d, g) ==
    LET hot == getHotNumbers(d, g, g.pick + 3)
    IN  [i \in DOMAIN hot |-> hot[i].number]

\* the combinations of the key numbers with their scores, as scores.sort
\* leaves them
WheelingScoresOf(keyNumbers, d, g) ==
    LET combinations == generateCombinations(keyNumbers, g.pick)
        frequency == getNumberFrequency(d, g)
    IN  SortDesc([i \in DOMAIN combinations |->
            <<combinations[i],
              SumSeq([j \in DOMAIN combinations[i] |->
                          frequency[combinations[i][j]]])>>])

\* the mutant of wheelingSystemPredictionOf: the last entry of scores
wheelingSystemPredictionOfLast(keyNumbers, d, g) ==
    LET scores == WheelingScoresOf(keyNumbers, d, g)
    IN  SortAsc(scores[Len(scores)][1])

\* wheelingSystemPrediction(keyNumbers)
wheelingSystemPredictionOf(keyNumbers, d, g) ==
    SortAsc(WheelingScoresOf(keyNumbers, d, g)[1][1])

\* wheelingSystemPrediction() with keyNumbers = null
WheelingScores(d, g) == WheelingScoresOf(DefaultKeyNumbers(d, g), d, g)

wheelingSystemPrediction(d, g) ==
    wheelingSystemPredictionOf(DefaultKeyNumbers(d, g), d, g)

\* the key sets handed to wheelingSystemPrediction: distinct numbers of the
\* game, at least pick of them, in any order
KeySets(g) ==
    UNION {{keys \in [1..n -> 1..g.balls] : IsDistinct(keys)} :
                n \in g.pick..g.balls}

\* deltaSystemPrediction: the keys of the 10 most frequent deltas
SortedDeltas(d, g) ==
    LET top == Slice(SortDesc(getDeltaAnalysis(d, g)), DeltaTop)
    IN  [i \in DOMAIN top |-> ToNumber(ToStr(top[i][1]))]

(***************************************************************************)
(* calculateConfidence(numbers).                                           *)
(***************************************************************************)
\* pairs.some(p => p is {a, b}), for every i < j: pairBonus += 2
PairBonus(pairs, numbers) ==
    2 * Cardinality({ij \in (DOMAIN numbers) \X (DOMAIN numbers) :
            /\ ij[1] < ij[2]
            /\ \E k \in DOMAIN pairs :
                \/ /\ pairs[k].numbers[1] = numbers[ij[1]]
                   /\ pairs[k].numbers[2] = numbers[ij[2]]
                \/ /\ pairs[k].numbers[2] = numbers[ij[1]]
                   /\ pairs[k].numbers[1] = numbers[ij[2]]})

\* Math.ceil(a / b) for positive integers
CeilDiv(a, b) == (a + b - 1) \div b

\* frequency[n]: undefined, NaN once added, when n is not a key of frequency
FrequencyOf(frequency, n) ==
    IF n \in DOMAIN frequency THEN R(frequency[n]) ELSE NaN

\* Frequency alignment: Math.min(avgFreq / expected, 1.5) * 20
FrequencyAlignment(numbers, d, g) ==
    LET frequency == getNumberFrequency(d, g)
        expected == getExpectedFrequency(d, g)
        avgFreq == RDiv(RSum([i \in DOMAIN numbers |->
                                 FrequencyOf(frequency, numbers[i])]),
                        R(Len(numbers)))
    IN  RMul(RMin(RDiv(avgFreq, expected), <<3, 2>>), R(20))

\* the sum of the five components, before rounding; of an empty array
\* sorted[sorted.length - 1] - sorted[0] is undefined - undefined, NaN
ConfidenceSum(numbers, d, g) ==
    LET freqPart == FrequencyAlignment(numbers, d, g)
        odds == Len(FilterOdd(numbers))
        half == RDiv(R(g.pick), R(2))
        balanceScore == RSub(R(1), RDiv(RAbs(RSub(R(odds), half)), half))
        sorted == SortAsc(numbers)
        spread == IF sorted = <<>> THEN NaN
                  ELSE R(sorted[Len(sorted)] - sorted[1])
        spreadScore == RMin(RDiv(spread, RMul(R(g.balls), <<4, 5>>)), R(1))
        decades == {(numbers[i] - 1) \div 10 : i \in DOMAIN numbers}
        decadeCoverage == RDiv(R(Cardinality(decades)), R(CeilDiv(g.balls, 10)))
        pairBonus == PairBonus(getCommonPairs(d, ConfidencePairs), numbers)
    IN  RAdd(RAdd(RAdd(RAdd(RAdd(R(0), freqPart), RMul(balanceScore, R(20))),
                       RMul(spreadScore, R(20))),
                  RMul(decadeCoverage, R(20))),
             RMin(R(pairBonus), R(20)))

\* return Math.min(Math.round(confidence), 100)
calculateConfidence(numbers, d, g) ==
    RMin(RRound(ConfidenceSum(numbers, d, g)), R(100))

(***************************************************************************)
(* The calls of one engine.  No call changes the engine or the dataset, so *)
(* a behaviour follows one call from the state the engine was built in.    *)
(***************************************************************************)
DeltaIdle == [pc |-> "idle"]

GenIdle == [pc |-> "idle"]

CallIdle == [pc |-> "idle"]

\* the weights the constructor sets
DefaultWeights ==
    [frequency |-> Norm(1, 4), overdue |-> Norm(1, 4),
     pattern |-> Norm(1, 4), statistical |-> Norm(1, 4)]

NoCallRunning ==
    /\ ws.pc = "idle" /\ delta.pc = "idle" /\ gen.pc = "idle"
    /\ call.pc = "idle" /\ ret = NoRet

CallFrequency ==
    /\ NoCallRunning
    /\ ws' = WSStart("frequency", FrequencyWeights(analyzerData, game), game.pick)
    /\ UNCHANGED <<game, data, analyzerData, delta, gen, ret, thisWeights, call>>

CallOverdue ==
    /\ NoCallRunning
    /\ ws' = WSStart("overdue", OverdueScores(data, game), game.pick)
    /\ UNCHANGED <<game, data, analyzerData, delta, gen, ret, thisWeights, call>>

\* patternBasedPrediction returns unless its while loop cannot add a number
CallPattern ==
    /\ NoCallRunning
    /\ Len(PatternSelected(analyzerData, game)) >= game.pick
    /\ ret' = [op |-> "pattern",
               numbers |-> patternBasedPrediction(analyzerData, game)]
    /\ UNCHANGED <<game, data, analyzerData, ws, delta, gen, thisWeights, call>>

CallWheeling ==
    /\ NoCallRunning
    /\ \/ ret' = [op |-> "wheeling", default |-> TRUE,
                  keyNumbers |-> DefaultKeyNumbers(analyzerData, game),
                  numbers |-> wheelingSystemPrediction(analyzerData, game)]
       \/ \E keyNumbers \in KeySets(game) :
            ret' = [op |-> "wheeling", default |-> FALSE,
                    keyNumbers |-> keyNumbers,
                    numbers |-> wheelingSystemPredictionOf(keyNumbers,
                                                          analyzerData, game)]
    /\ UNCHANGED <<game, data, analyzerData, ws, delta, gen, thisWeights, call>>

\* const start = Math.floor(Math.random() * 15) + 1; const numbers = [start]
CallDelta ==
    /\ NoCallRunning
    /\ \E start \in 1..DeltaStartRange :
        delta' = [pc |-> "loop", numbers |-> <<start>>, iter |-> 0]
    /\ UNCHANGED <<game, data, analyzerData, ws, gen, ret, thisWeights, call>>

\* what one iteration of the first while loop pushes: `di` is the index
\* drawn into sortedDeltas (sortedDeltas[0] is undefined and next NaN when
\* the list is empty), `alt` is Math.floor(Math.random() * 10) + 1; 0 when
\* the iteration pushes nothing
DeltaPush(numbers, sortedDeltas, di, alt, g) ==
    LET last == numbers[Len(numbers)]
        defined == di \in DOMAIN sortedDeltas
        next == IF defined THEN last + sortedDeltas[di] ELSE 0
        altNext == last + alt
    IN  IF defined /\ next <= g.balls /\ ~Includes(numbers, next) THEN next
        ELSE IF Len(numbers) < g.pick /\ altNext <= g.balls
                /\ ~Includes(numbers, altNext) THEN altNext
        ELSE 0

\* the outcomes of one iteration, over the random draws
DeltaPushes(numbers, d, g) ==
    LET sortedDeltas == SortedDeltas(d, g)
    IN  {DeltaPush(numbers, sortedDeltas, di, alt, g) :
            di \in (IF sortedDeltas = <<>> THEN {1} ELSE DOMAIN sortedDeltas),
            alt \in 1..DeltaAltRange}

\* one iteration of while (numbers.length < pick)
DeltaLoop ==
    /\ delta.pc = "loop"
    /\ Len(delta.numbers) < game.pick
    /\ delta.iter < game.pick + MaxSpin
    /\ \E push \in DeltaPushes(delta.numbers, analyzerData, game) :
        delta' = [delta EXCEPT
                    !.numbers = IF push # 0 THEN Append(@, push) ELSE @,
                    !.iter = @ + 1]
    /\ UNCHANGED <<game, data, analyzerData, ws, gen, ret, thisWeights, call>>

\* the second while loop, which adds random numbers not yet included until
\* there are pick of them: its results from `numbers`
RECURSIVE DeltaFill(_, _)
DeltaFill(numbers, g) ==
    IF Len(numbers) >= g.pick THEN {numbers}
    ELSE UNION {DeltaFill(Append(numbers, rand), g) :
                    rand \in {r \in 1..g.balls : ~Includes(numbers, r)}}

\* the exit of the first loop, the second loop, return numbers.sort(...)
DeltaReturn ==
    /\ delta.pc = "loop"
    /\ Len(delta.numbers) >= game.pick
    /\ \E filled \in DeltaFill(delta.numbers, game) :
        /\ delta' = [delta EXCEPT !.pc = "done", !.numbers = SortAsc(filled)]
        /\ ret' = [op |-> "delta", numbers |-> SortAsc(filled)]
    /\ UNCHANGED <<game, data, analyzerData, ws, gen, thisWeights, call>>

\* the arrays calculateConfidence is called with: up to pick + 1 elements,
\* each in 0..balls + 1, in any order
ConfidenceArguments(g) ==
    UNION {[1..k -> 0..(g.balls + 1)] : k \in 0..(g.pick + 1)}

\* the arrays that are not candidates of the game: a wrong number of
\* elements, an element outside 1..balls or a repeated element
MalformedCandidates(g) ==
    {s \in ConfidenceArguments(g) :
        \/ Len(s) # g.pick
        \/ \E i \in DOMAIN s : s[i] \notin 1..g.balls
        \/ ~IsDistinct(s)}

\* calculateConfidence(numbers) has no check of its argument
ConfidenceOf(arguments) ==
    /\ NoCallRunning
    /\ \E numbers \in arguments :
        ret' = [op |-> "confidence", numbers |-> numbers,
                value |-> calculateConfidence(numbers, analyzerData, game)]
    /\ UNCHANGED <<game, data, analyzerData, ws, delta, gen, thisWeights, call>>

CallConfidence == ConfidenceOf(ConfidenceArguments(game))

\* calculateConfidence on the candidates of the game, in any order
CallConfidenceOfCandidate == ConfidenceOf(generateRandomNumbers(game))

(***************************************************************************)
(* generateMultipleSets(count, algorithm, constraints).                    *)
(***************************************************************************)
GenAlgorithms == {"frequency", "overdue", "pattern", "wheeling"}

\* the candidates one call of the strategy of the switch can return
StrategyResults(algorithm, d, g) ==
    CASE algorithm = "frequency" ->
            weightedSelection(FrequencyWeights(d, g), g.pick, g.balls)
      [] algorithm = "overdue" ->
            weightedSelection(OverdueScores(d, g), g.pick, g.balls)
      [] algorithm = "pattern" ->
            IF Len(PatternSelected(d, g)) >= g.pick
            THEN {patternBasedPrediction(d, g)} ELSE {}
      [] algorithm = "wheeling" -> {wheelingSystemPrediction(d, g)}

\* if (constraints.balanceOddEven): odds < 2 || odds > pick - 2
ViolatesOddEven(numbers, g) ==
    LET odds == Len(FilterOdd(numbers))
    IN  odds < 2 \/ odds > g.pick - 2

\* if (constraints.balanceHighLow): mid = balls / 2, lows counts n <= mid
ViolatesHighLow(numbers, g) ==
    LET mid == RDiv(R(g.balls), R(2))
        lows == Cardinality({i \in DOMAIN numbers : RLe(R(numbers[i]), mid)})
    IN  lows < 2 \/ lows > g.pick - 2

\* d.splice(0, n): the first n draws, taken out of the dataset
SpliceDataset(d, n) ==
    [taken |-> Slice(d, n), left |-> SubSeq(d, Len(Slice(d, n)) + 1, Len(d))]

\* d.slice(0, n): a copy of the first n draws and the dataset, left as it is
SliceDataset(d, n) == [taken |-> Slice(d, n), left |-> d]

\* if (constraints.avoidRepeats): overlap with the numbers of the 3 most
\* recent draws > pick / 2
ViolatesRepeats(numbers, d, g) ==
    LET recent == SliceDataset(d, RecentDraws).taken
        recentNumbers == UNION {Range(recent[i].numbers) : i \in DOMAIN recent}
        overlap == Cardinality({i \in DOMAIN numbers :
                                    numbers[i] \in recentNumbers})
    IN  RLt(RDiv(R(g.pick), R(2)), R(overlap))

\* some requested constraint rejects the candidate
Violates(constraints, numbers, d, g) ==
    \/ constraints.balanceOddEven /\ ViolatesOddEven(numbers, g)
    \/ constraints.balanceHighLow /\ ViolatesHighLow(numbers, g)
    \/ constraints.avoidRepeats /\ ViolatesRepeats(numbers, d, g)

\* the body of the do-while loop after the strategy returned `numbers`: a
\* rejecting constraint does attempts++ and continue, the end of the body
\* does attempts++; either way the loop condition is evaluated next
GenBodyAttempts(constraints, numbers, attempts, d, g) ==
    IF Violates(constraints, numbers, d, g) THEN attempts + 1
    ELSE attempts + 1

\* the dataset after the body of the loop: the avoidRepeats branch, reached
\* when no earlier constraint did `continue`, is the only statement of the
\* body that calls a method on HISTORICAL_DATA[gameKey] other than the reads
\* of the strategy
GenDataAfter(constraints, numbers, d, g) ==
    IF \/ constraints.balanceOddEven /\ ViolatesOddEven(numbers, g)
       \/ constraints.balanceHighLow /\ ViolatesHighLow(numbers, g)
       \/ ~constraints.avoidRepeats
    THEN d
    ELSE SliceDataset(d, RecentDraws).left

\* while (usedCombinations.has(numbers.join('-')) && attempts < 100)
GenRepeats(usedCombinations, numbers, attempts) ==
    Join(numbers) \in usedCombinations /\ attempts < MaxAttempts

\* GenUsedAfter without the add
GenUsedForgotten(usedCombinations, numbers) == usedCombinations

\* usedCombinations.add(numbers.join('-'))
GenUsedAfter(usedCombinations, numbers) ==
    usedCombinations \cup {Join(numbers)}

\* sets.sort((a, b) => b.confidence - a.confidence): stable; a comparison
\* that yields NaN counts as 0 and moves nothing
RECURSIVE InsertSet(_, _)
InsertSet(sorted, e) ==
    IF sorted = <<>> THEN <<e>>
    ELSE IF RLt(R(0), RSub(e.confidence, Head(sorted).confidence))
         THEN <<e>> \o sorted
         ELSE <<Head(sorted)>> \o InsertSet(Tail(sorted), e)

RECURSIVE SortSets(_)
SortSets(s) ==
    IF s = <<>> THEN <<>>
    ELSE InsertSet(SortSets(SubSeq(s, 1, Len(s) - 1)), s[Len(s)])

GenGames == {g \in [balls : {GenBalls}, pick : {GenPick}] : g.pick < g.balls}

GenDatasets(g) == SeqsUpTo(Draws(g), GenDraws)

\* the candidates of every strategy on every dataset, computed once
GenResults ==
    UNION {{<<g, d, a, StrategyResults(a, d, g)>> :
                d \in GenDatasets(g), a \in GenAlgorithms} : g \in GenGames}

GenCandidates(algorithm, d, g) ==
    (CHOOSE t \in GenResults :
        t[1] = g /\ t[2] = d /\ t[3] = algorithm)[4]

\* calculateConfidence of every candidate on every dataset, computed once
GenScores ==
    UNION {{<<t[1], t[2], c, calculateConfidence(c, t[2], t[1])>> : c \in t[4]} :
              t \in GenResults}

GenConfidence(numbers, d, g) ==
    (CHOOSE t \in GenScores : t[1] = g /\ t[2] = d /\ t[3] = numbers)[4]

\* one pass of the do-while loop: the strategy of the switch, the
\* constraints, the loop condition
GenAttempt ==
    /\ gen.pc = "loop"
    /\ \E numbers \in GenCandidates(gen.algorithm, data, game) :
        LET attempts == GenBodyAttempts(gen.constraints, numbers,
                                        gen.attempts, data, game)
        IN  /\ gen' = [gen EXCEPT
                    !.numbers = numbers,
                    !.attempts = attempts,
                    !.pc = IF GenRepeats(gen.usedCombinations, numbers, attempts)
                           THEN "loop" ELSE "accept"]
            /\ data' = GenDataAfter(gen.constraints, numbers, data, game)
    /\ UNCHANGED <<game, analyzerData, ws, delta, ret, thisWeights, call>>

\* usedCombinations.add, sets.push, and the next round of the for loop,
\* where `numbers` and `attempts` start afresh
GenAccept ==
    /\ gen.pc = "accept"
    /\ gen' = [gen EXCEPT
            !.usedCombinations = GenUsedAfter(@, gen.numbers),
            !.sets = Append(@, [numbers |-> gen.numbers,
                                confidence |-> GenConfidence(
                                                  gen.numbers, analyzerData, game),
                                algorithm |-> gen.algorithm]),
            !.i = @ + 1,
            !.attempts = 0,
            !.numbers = <<>>,
            !.pc = IF gen.i + 1 < gen.count THEN "loop" ELSE "sort"]
    /\ UNCHANGED <<game, data, analyzerData, ws, delta, ret, thisWeights, call>>

\* return sets.sort(...)
GenReturn ==
    /\ gen.pc = "sort"
    /\ gen' = [gen EXCEPT !.sets = SortSets(@), !.pc = "done"]
    /\ ret' = [op |-> "generateMultipleSets", sets |-> gen'.sets]
    /\ UNCHANGED <<game, data, analyzerData, ws, delta, thisWeights, call>>

InitGen ==
    /\ game \in GenGames
    /\ data \in GenDatasets(game)
    /\ analyzerData = data
    /\ \E count \in 0..MaxCount, algorithm \in GenAlgorithms,
          constraints \in [balanceOddEven : BOOLEAN, balanceHighLow : BOOLEAN,
                           avoidRepeats : BOOLEAN] :
            gen = [pc |-> IF count > 0 THEN "loop" ELSE "sort",
                   count |-> count, algorithm |-> algorithm,
                   constraints |-> constraints, i |-> 0, attempts |-> 0,
                   numbers |-> <<>>, usedCombinations |-> {}, sets |-> <<>>]
    /\ ws = WSIdle
    /\ delta = DeltaIdle
    /\ ret = NoRet
    /\ thisWeights = DefaultWeights
    /\ call = CallIdle

NextGen == GenAttempt \/ GenAccept \/ GenReturn

SpecGen == InitGen /\ [][NextGen]_vars

(***************************************************************************)
(* weightedSelection on its own: any non-negative weights over 1..balls    *)
(* and any count up to balls.                                              *)
(***************************************************************************)
WSGames == {g \in Games : g.balls <= WSBalls /\ g.pick = 2}

InitWS ==
    /\ game \in WSGames
    /\ data = <<>>
    /\ analyzerData = data
    /\ \E weights \in [1..game.balls -> {R(w) : w \in 0..MaxWeight}],
          count \in 0..game.balls :
            ws = WSStart("direct", weights, count)
    /\ delta = DeltaIdle
    /\ gen = GenIdle
    /\ ret = NoRet
    /\ thisWeights = DefaultWeights
    /\ call = CallIdle

NextWS == WSLoop \/ WSReturn

SpecWS == InitWS /\ [][NextWS]_vars

\* every value of the random draw makes the iteration at hand select a
\* number or take the fallback
WSProgresses ==
    LET total == WSTotal(ws.available)
    IN  \/ REq(total, R(0))
        \/ \A rand \in RandTimes(ws.available, total) :
               WSPick(ws.available, rand) # 0

ValidCandidate(numbers, g) ==
    /\ Len(numbers) = g.pick
    /\ \A i \in DOMAIN numbers : numbers[i] \in 1..g.balls
    /\ IsAscending(numbers)

Strategies == {"frequency", "overdue", "pattern", "wheeling", "delta"}

(***************************************************************************)
(* markovChainPrediction and fourierAnalysisPrediction.                    *)
(***************************************************************************)
TypeError == "TypeError"

\* transitions[prev][curr]++ for prev in data[i], curr in data[i - 1]
MarkovCounts(d, g) ==
    [prev \in 1..g.balls |->
        [curr \in 1..g.balls |->
            Cardinality({i \in 2..Len(d) :
                            /\ Includes(d[i].numbers, prev)
                            /\ Includes(d[i - 1].numbers, curr)})]]

\* the normalisation of a row without its test total > 0
MarkovNormaliseAll(row) ==
    [to \in DOMAIN row |-> RDiv(R(row[to]), R(SumSeq(row)))]

\* if (total > 0) transitions[from][to] /= total, for every to
MarkovNormalise(row) ==
    LET total == SumSeq(row)
    IN  IF total > 0 THEN [to \in DOMAIN row |-> RDiv(R(row[to]), R(total))]
        ELSE [to \in DOMAIN row |-> R(row[to])]

MarkovTransitions(d, g) ==
    LET counts == MarkovCounts(d, g)
    IN  [from \in 1..g.balls |-> MarkovNormalise(counts[from])]

\* scores[i] = the sum over prev in data[0].numbers of transitions[prev][i]
MarkovScores(transitions, lastDraw, g) ==
    [i \in 1..g.balls |->
        RSum([k \in DOMAIN lastDraw |-> transitions[lastDraw[k]][i]])]

\* data[0].numbers throws when the dataset is empty
CallMarkov ==
    /\ NoCallRunning
    /\ IF data = <<>>
       THEN /\ ret' = [op |-> "markov", error |-> TypeError]
            /\ UNCHANGED <<ws, call>>
       ELSE LET transitions == MarkovTransitions(data, game)
            IN  /\ call' = [pc |-> "markov", transitions |-> transitions]
                /\ ws' = WSStart("markov",
                                 MarkovScores(transitions, data[1].numbers, game),
                                 game.pick)
                /\ UNCHANGED ret
    /\ UNCHANGED <<game, data, analyzerData, delta, gen, thisWeights>>

\* the indexes (from 0) of the draws that hold num, ascending
Positions(d, num) ==
    SetToSeqAsc({i - 1 : i \in {j \in DOMAIN d : Includes(d[j].numbers, num)}})

\* `d` is HISTORICAL_DATA[this.gameKey], `a` the data of the analyzer
FourierCyclesOf(d, a, g) ==
    LET frequency == getNumberFrequency(a, g)
    IN  [num \in 1..g.balls |->
            LET positions == Positions(d, num)
            IN  IF Len(positions) < 2 THEN R(frequency[num])
                ELSE LET gaps == [i \in 1..(Len(positions) - 1) |->
                                     positions[i + 1] - positions[i]]
                         avgCycle == RDiv(R(SumSeq(gaps)), R(Len(gaps)))
                         cycleScore == RDiv(R(positions[1]), avgCycle)
                     IN  RMul(cycleScore, R(frequency[num]))]

FourierCycles(d, g) == FourierCyclesOf(d, d, g)

CallFourier ==
    /\ NoCallRunning
    /\ ws' = WSStart("fourier", FourierCyclesOf(data, analyzerData, game),
                   game.pick)
    /\ UNCHANGED <<game, data, analyzerData, delta, gen, ret, thisWeights, call>>

(***************************************************************************)
(* statisticalEquilibriumPrediction.                                       *)
(***************************************************************************)
\* `${oddCount}O/${evenCount}E`
OddEvenKey(oddCount, evenCount) ==
    ToStr(oddCount) \o <<79, 47>> \o ToStr(evenCount) \o <<69>>

getOddEvenDistribution(d) ==
    CountKeys([i \in DOMAIN d |->
                  LET oddCount == Len(FilterOdd(d[i].numbers))
                  IN  OddEvenKey(oddCount, Len(d[i].numbers) - oddCount)],
              <<>>)

\* parseInt(key.split('O')[0])
RECURSIVE BeforeO(_)
BeforeO(str) ==
    IF str = <<>> \/ Head(str) = 79 THEN <<>>
    ELSE <<Head(str)>> \o BeforeO(Tail(str))

getSumDistribution(d) ==
    LET sums == [i \in DOMAIN d |-> SumSeq(d[i].numbers)]
        least == CHOOSE x \in Range(sums) : \A y \in Range(sums) : x <= y
        most == CHOOSE x \in Range(sums) : \A y \in Range(sums) : x >= y
    IN  [min |-> IF d = <<>> THEN PosInf ELSE R(least),
         max |-> IF d = <<>> THEN NegInf ELSE R(most),
         avg |-> RDiv(R(SumSeq(sums)), R(Len(sums))),
         ranges |-> CountKeys(
             [i \in DOMAIN sums |->
                 LET rangeStart == (sums[i] \div rangeSize) * rangeSize
                 IN  Join(<<rangeStart, rangeStart + rangeSize - 1>>)],
             <<>>)]

\* the mutant of StatMatches: the odd count is not tested
StatMatchesSumOnly(candidate, targetOdds, targetSum) ==
    RLe(RAbs(RSub(R(SumSeq(candidate)), targetSum)), R(sumTolerance))

\* the test of line 150 on a candidate
StatMatches(candidate, targetOdds, targetSum) ==
    /\ Abs(Len(FilterOdd(candidate)) - targetOdds) <= 1
    /\ RLe(RAbs(RSub(R(SumSeq(candidate)), targetSum)), R(sumTolerance))

\* lines 127-142; sortedOddEven[0][0] throws when the dataset is empty
CallStatistical ==
    /\ NoCallRunning
    /\ LET sortedOddEven == SortDesc(getOddEvenDistribution(analyzerData))
           sumDist == getSumDistribution(analyzerData)
       IN  IF sortedOddEven = <<>>
           THEN /\ ret' = [op |-> "statistical", error |-> TypeError]
                /\ UNCHANGED call
           ELSE /\ call' = [pc |-> "statistical", attempts |-> 0,
                            candidate |-> <<>>,
                            targetOdds |-> ToNumber(BeforeO(sortedOddEven[1][1])),
                            targetSum |-> sumDist.avg]
                /\ UNCHANGED ret
    /\ UNCHANGED <<game, data, analyzerData, ws, delta, gen, thisWeights>>

\* one iteration of while (attempts < maxAttempts)
StatAttempt ==
    /\ call.pc = "statistical"
    /\ call.attempts < maxAttempts
    /\ \E candidate \in generateRandomNumbers(game) :
        IF StatMatches(candidate, call.targetOdds, call.targetSum)
        THEN /\ ret' = [op |-> "statistical", numbers |-> SortAsc(candidate)]
             /\ call' = [call EXCEPT !.pc = "done", !.candidate = candidate]
        ELSE /\ call' = [call EXCEPT !.attempts = @ + 1,
                                     !.candidate = candidate]
             /\ UNCHANGED ret
    /\ UNCHANGED <<game, data, analyzerData, ws, delta, gen, thisWeights>>

\* return this.frequencyBasedPrediction()
StatFallback ==
    /\ call.pc = "statistical"
    /\ call.attempts >= maxAttempts
    /\ call' = [call EXCEPT !.pc = "fallback"]
    /\ ws' = WSStart("statistical", FrequencyWeights(analyzerData, game), game.pick)
    /\ UNCHANGED <<game, data, analyzerData, delta, gen, ret, thisWeights>>

(***************************************************************************)
(* monteCarloSimulation(iterations).                                       *)
(***************************************************************************)
MCCdf(d, g) ==
    LET frequency == getNumberFrequency(d, g)
        totalFreq == SumSeq(frequency)
    IN  [i \in 1..g.balls |->
            [number |-> i,
             cumulative |->
                 RSum([k \in 1..i |-> RDiv(R(frequency[k]), R(totalFreq))])]]

\* values of Math.random() that cover every outcome of the find: 0, the
\* cumulative values below 1 and a point between any two of them
MCRands(cdf) ==
    LET vals == {R(0)} \cup {cdf[i].cumulative : i \in DOMAIN cdf}
        fin == {v \in vals : IsFinite(v)}
    IN  {v \in fin : RLt(v, R(1))}
        \cup {RDiv(RAdd(v, w), R(2)) : v \in fin, w \in {x \in fin : RLe(x, R(1))}}

\* cdf.find(c => c.cumulative >= rand).number; 0 when find returns undefined
MCFind(cdf, rand) ==
    LET hits == {i \in DOMAIN cdf : RLe(rand, cdf[i].cumulative)}
    IN  IF hits = {} THEN 0
        ELSE cdf[CHOOSE i \in hits : \A h \in hits : i <= h].number

\* Object.entries of an object whose keys were added in the order of
\* `entries`: keys that are array indexes come first, ascending
ObjectEntries(entries) ==
    IF \A i \in DOMAIN entries : ~Includes(entries[i][1], Dash)
    THEN LET nums == SetToSeqAsc({ToNumber(entries[i][1]) : i \in DOMAIN entries})
         IN  [k \in DOMAIN nums |->
                 entries[CHOOSE i \in DOMAIN entries :
                            ToNumber(entries[i][1]) = nums[k]]]
    ELSE entries

CallMonteCarlo ==
    /\ NoCallRunning
    /\ \E iterations \in 0..MaxIterations :
        call' = [pc |-> "montecarlo", iterations |-> iterations, iter |-> 0,
                 combinationCounts |-> <<>>, sample |-> <<>>]
    /\ UNCHANGED <<game, data, analyzerData, ws, delta, gen, ret, thisWeights>>

\* one iteration of while (sample.length < this.game.pick): .number of
\* undefined is a TypeError, a number the sample includes is not pushed
MCDraw ==
    /\ call.pc = "montecarlo"
    /\ call.iter < call.iterations
    /\ Len(call.sample) < game.pick
    /\ LET cdf == MCCdf(analyzerData, game)
       IN  \E rand \in {r \in MCRands(cdf) : RLt(r, R(1))} :
            LET num == MCFind(cdf, rand)
            IN  IF num = 0
                THEN /\ ret' = [op |-> "montecarlo", error |-> TypeError]
                     /\ call' = [call EXCEPT !.pc = "done"]
                ELSE /\ call' = IF Includes(call.sample, num) THEN call
                                ELSE [call EXCEPT !.sample = Append(@, num)]
                     /\ UNCHANGED ret
    /\ UNCHANGED <<game, data, analyzerData, ws, delta, gen, thisWeights>>

\* lines 442-444: sample.sort, key = sample.join('-'), the count of the key
MCCount ==
    /\ call.pc = "montecarlo"
    /\ call.iter < call.iterations
    /\ Len(call.sample) >= game.pick
    /\ call' = [call EXCEPT
                  !.combinationCounts = Increment(@, Join(SortAsc(call.sample))),
                  !.iter = @ + 1,
                  !.sample = <<>>]
    /\ UNCHANGED <<game, data, analyzerData, ws, delta, gen, ret, thisWeights>>

\* lines 448-449; sorted[0][0] throws when no combination was counted
MCReturn ==
    /\ call.pc = "montecarlo"
    /\ call.iter >= call.iterations
    /\ LET sorted == SortDesc(ObjectEntries(call.combinationCounts))
       IN  ret' = IF sorted = <<>>
                  THEN [op |-> "montecarlo", error |-> TypeError]
                  ELSE [op |-> "montecarlo",
                        numbers |-> SplitNumbers(sorted[1][1], <<>>)]
    /\ call' = [call EXCEPT !.pc = "done"]
    /\ UNCHANGED <<game, data, analyzerData, ws, delta, gen, thisWeights>>

(***************************************************************************)
(* The engine on one game and one dataset: one call of a strategy or of    *)
(* calculateConfidence.                                                    *)
(***************************************************************************)
Init ==
    /\ game \in Games
    /\ data \in Datasets(game)
    /\ analyzerData = data
    /\ ws = WSIdle
    /\ delta = DeltaIdle
    /\ gen = GenIdle
    /\ ret = NoRet
    /\ thisWeights = DefaultWeights
    /\ call = CallIdle

Next ==
    \/ CallFrequency
    \/ CallOverdue
    \/ CallPattern
    \/ CallWheeling
    \/ CallDelta
    \/ CallStatistical
    \/ CallMarkov
    \/ CallMonteCarlo
    \/ CallFourier
    \/ CallConfidence
    \/ StatAttempt
    \/ StatFallback
    \/ MCDraw
    \/ MCCount
    \/ MCReturn
    \/ WSLoop
    \/ WSReturn
    \/ DeltaLoop
    \/ DeltaReturn

Spec == Init /\ [][Next]_vars

(***************************************************************************)
(* geneticAlgorithmPrediction(generations, populationSize), one action per *)
(* step: the selection of a generation, one child, the end of a            *)
(* generation, the return.  After the selection `population` is not read   *)
(* again before line 321 overwrites it, so the activation holds it only    *)
(* until then; scored[0], the best of the generation, is elite[0].         *)
(***************************************************************************)
\* pairs.find(p => p is {a, b}): the frequency of the first match, 0 when
\* there is none
PairMatch(pairs, a, b) ==
    LET hits == {k \in DOMAIN pairs :
                    \/ pairs[k].numbers[1] = a /\ pairs[k].numbers[2] = b
                    \/ pairs[k].numbers[1] = b /\ pairs[k].numbers[2] = a}
    IN  IF hits = {} THEN 0
        ELSE pairs[CHOOSE k \in hits : \A h \in hits : k <= h].frequency

evaluateFitness(numbers, d, g) ==
    LET frequency == getNumberFrequency(d, g)
        pairs == getCommonPairs(d, FitnessPairs)
        n == Len(numbers)
        freqBonus ==
            RSum([i \in 1..n |-> RMul(R(frequency[numbers[i]]), <<1, 2>>)])
        ijs == {ij \in (1..n) \X (1..n) : ij[1] < ij[2]}
        RECURSIVE PairSum(_)
        PairSum(S) ==
            IF S = {} THEN R(0)
            ELSE LET ij == CHOOSE x \in S : TRUE
                 IN  RAdd(RMul(R(PairMatch(pairs, numbers[ij[1]],
                                           numbers[ij[2]])), <<3, 10>>),
                          PairSum(S \ {ij}))
        odds == Len(FilterOdd(numbers))
        evenCount == n - odds
        balance == RMul(RSub(R(1), RDiv(R(Abs(odds - evenCount)), R(n))),
                        R(10))
        sorted == SortAsc(numbers)
        spread == sorted[Len(sorted)] - sorted[1]
    IN  RAdd(RAdd(RAdd(freqBonus, PairSum(ijs)), balance),
             RMul(RDiv(R(spread), R(g.balls)), R(5)))

GAGames == {g \in [balls : {GABalls}, pick : {GAPick}] : g.pick < g.balls}

GADatasets(g) == SeqsUpTo(Draws(g), GADraws)

\* evaluateFitness of every individual on every dataset, computed once
GAFitnessTable ==
    UNION {{<<g, d, numbers, evaluateFitness(numbers, d, g)>> :
                d \in GADatasets(g), numbers \in generateRandomNumbers(g)} :
              g \in GAGames}

GAFitness(numbers, d, g) ==
    (CHOOSE t \in GAFitnessTable :
        t[1] = g /\ t[2] = d /\ t[3] = numbers)[4]

\* population.map(individual => ({numbers, fitness}))
Scored(population, d, g) ==
    [i \in DOMAIN population |->
        [numbers |-> population[i],
         fitness |-> GAFitness(population[i], d, g)]]

\* scored.sort((a, b) => b.fitness - a.fitness): stable
RECURSIVE InsertScored(_, _)
InsertScored(sorted, e) ==
    IF sorted = <<>> THEN <<e>>
    ELSE IF RLt(R(0), RSub(e.fitness, Head(sorted).fitness))
         THEN <<e>> \o sorted
         ELSE <<Head(sorted)>> \o InsertScored(Tail(sorted), e)

RECURSIVE SortScored(_)
SortScored(s) ==
    IF s = <<>> THEN <<>>
    ELSE InsertScored(SortScored(SubSeq(s, 1, Len(s) - 1)), s[Len(s)])

\* the selection with the last 20% of the sorted list instead of the first
EliteFromEnd(scored, populationSize) ==
    SubSeq(scored, Len(scored) - Len(Slice(scored, (populationSize * 2) \div 10)) + 1,
           Len(scored))

\* scored.slice(0, Math.floor(populationSize * 0.2))
Elite(scored, populationSize) ==
    Slice(scored, (populationSize * 2) \div 10)

\* the second loop of crossover: parent2's numbers not yet in the child,
\* while the child is short
RECURSIVE CrossoverTake(_, _, _)
CrossoverTake(child, parent2, g) ==
    IF parent2 = <<>> \/ Len(child) >= g.pick THEN child
    ELSE CrossoverTake(IF Includes(child, Head(parent2)) THEN child
                       ELSE Append(child, Head(parent2)),
                       Tail(parent2), g)

\* the third loop of crossover: random numbers until the child has pick
RECURSIVE CrossoverFill(_, _)
CrossoverFill(child, g) ==
    IF Len(child) >= g.pick THEN {child}
    ELSE UNION {CrossoverFill(Append(child, rand), g) :
                    rand \in {r \in 1..g.balls : ~Includes(child, r)}}

\* the children crossover(parent1, parent2) can return
crossover(parent1, parent2, g) ==
    CrossoverFill(
        CrossoverTake(SubSeq(parent1, 1, g.pick \div 2), parent2, g), g)

\* the mutant of MutateFrom: newNum is taken as first drawn
RECURSIVE MutateFromAny(_, _, _)
MutateFromAny(mutated, i, g) ==
    IF i > Len(mutated) THEN {mutated}
    ELSE MutateFromAny(mutated, i + 1, g)
         \cup UNION {MutateFromAny([mutated EXCEPT ![i] = newNum], i + 1, g) :
                        newNum \in 1..g.balls}

\* mutate from index i on: Math.random() < rate either way at every index;
\* newNum is drawn until mutated does not include it
RECURSIVE MutateFrom(_, _, _)
MutateFrom(mutated, i, g) ==
    IF i > Len(mutated) THEN {mutated}
    ELSE MutateFrom(mutated, i + 1, g)
         \cup UNION {MutateFrom([mutated EXCEPT ![i] = newNum], i + 1, g) :
                        newNum \in {r \in 1..g.balls : ~Includes(mutated, r)}}

mutate(numbers, g) == MutateFrom(numbers, 1, g)

\* one iteration of while (newPopulation.length < populationSize)
Children(elite, g) ==
    UNION {UNION {mutate(child, g) :
                    child \in crossover(elite[p1].numbers, elite[p2].numbers, g)} :
              p1 \in DOMAIN elite, p2 \in DOMAIN elite}

CallGenetic ==
    /\ NoCallRunning
    /\ \E generations \in 0..MaxGenerations :
       \E population \in [1..GAPopulation -> generateRandomNumbers(game)] :
            call' = [pc |-> IF generations > 0 THEN "select" ELSE "final",
                     generations |-> generations,
                     populationSize |-> GAPopulation,
                     population |-> population, gen |-> 0,
                     elite |-> <<>>, newPopulation |-> <<>>]
    /\ UNCHANGED <<game, data, analyzerData, ws, delta, gen, ret, thisWeights>>

\* lines 294-305 of one generation
GASelect ==
    /\ call.pc = "select"
    /\ LET scored == SortScored(Scored(call.population, analyzerData, game))
           elite == Elite(scored, call.populationSize)
       IN  call' = [call EXCEPT
                      !.pc = "children", !.population = <<>>,
                      !.elite = elite,
                      !.newPopulation =
                          [i \in DOMAIN elite |-> elite[i].numbers]]
    /\ UNCHANGED <<game, data, analyzerData, ws, delta, gen, ret, thisWeights>>

\* lines 307-319: one child; with no elite, elite[NaN].numbers throws
GAChild ==
    /\ call.pc = "children"
    /\ Len(call.newPopulation) < call.populationSize
    /\ IF call.elite = <<>>
       THEN /\ call' = [call EXCEPT !.pc = "done"]
            /\ ret' = [op |-> "genetic", error |-> TypeError]
       ELSE /\ \E mutated \in Children(call.elite, game) :
                call' = [call EXCEPT
                           !.newPopulation = Append(@, mutated)]
            /\ UNCHANGED ret
    /\ UNCHANGED <<game, data, analyzerData, ws, delta, gen, thisWeights>>

\* line 321 and the step of the for loop
GANext ==
    /\ call.pc = "children"
    /\ Len(call.newPopulation) >= call.populationSize
    /\ call' = [call EXCEPT
                  !.pc = IF call.gen + 1 < call.generations
                         THEN "select" ELSE "final",
                  !.population = call.newPopulation,
                  !.gen = @ + 1]
    /\ UNCHANGED <<game, data, analyzerData, ws, delta, gen, ret, thisWeights>>

\* lines 325-331
GAReturn ==
    /\ call.pc = "final"
    /\ LET final == SortScored(Scored(call.population, analyzerData, game))
       IN  ret' = IF final = <<>>
                  THEN [op |-> "genetic", error |-> TypeError]
                  ELSE [op |-> "genetic",
                        numbers |-> SortAsc(final[1].numbers)]
    /\ call' = [call EXCEPT !.pc = "done"]
    /\ UNCHANGED <<game, data, analyzerData, ws, delta, gen, thisWeights>>

InitGA ==
    /\ game \in GAGames
    /\ data \in GADatasets(game)
    /\ analyzerData = data
    /\ ws = WSIdle
    /\ delta = DeltaIdle
    /\ gen = GenIdle
    /\ ret = NoRet
    /\ thisWeights = DefaultWeights
    /\ call = CallIdle

NextGA == CallGenetic \/ GASelect \/ GAChild \/ GANext \/ GAReturn

SpecGA == InitGA /\ [][NextGA]_vars

\* the best fitness of a population
BestFitness(population, d, g) ==
    SortScored(Scored(population, d, g))[1].fitness

(***************************************************************************)
(* setWeights(weights) and hybridPrediction() on one engine.               *)
(***************************************************************************)
WeightKeys == {"frequency", "overdue", "pattern", "statistical"}

\* { ...this.weights, ...weights }
MergeWeights(weights, w) ==
    [k \in DOMAIN weights \cup DOMAIN w |->
        IF k \in DOMAIN w THEN w[k] ELSE weights[k]]

\* the lists deltaSystemPrediction can return from `numbers`: iterations
\* that push nothing are repeated
RECURSIVE DeltaResults(_, _, _)
DeltaResults(numbers, d, g) ==
    IF Len(numbers) >= g.pick
    THEN {SortAsc(filled) : filled \in DeltaFill(numbers, g)}
    ELSE UNION {DeltaResults(Append(numbers, push), d, g) :
                    push \in DeltaPushes(numbers, d, g) \ {0}}

deltaSystemPrediction(d, g) ==
    UNION {DeltaResults(<<start>>, d, g) : start \in 1..DeltaStartRange}

\* the lists statisticalEquilibriumPrediction can return: a matching
\* candidate, sorted, or after 1000 candidates that do not match what
\* frequencyBasedPrediction returns; none when it throws
statisticalEquilibriumPrediction(d, g) ==
    LET sortedOddEven == SortDesc(getOddEvenDistribution(d))
        targetOdds == ToNumber(BeforeO(sortedOddEven[1][1]))
        targetSum == getSumDistribution(d).avg
        candidates == generateRandomNumbers(g)
        matching == {c \in candidates : StatMatches(c, targetOdds, targetSum)}
    IN  IF sortedOddEven = <<>> THEN {}
        ELSE {SortAsc(c) : c \in matching}
             \cup (IF matching # candidates
                   THEN weightedSelection(FrequencyWeights(d, g), g.pick, g.balls)
                   ELSE {})

\* the lists markovChainPrediction can return; none when it throws
markovChainPrediction(d, g) ==
    IF d = <<>> THEN {}
    ELSE weightedSelection(
             MarkovScores(MarkovTransitions(d, g), d[1].numbers, g),
             g.pick, g.balls)

\* the lists geneticAlgorithmPrediction(30, 50) can return: the 50 random
\* individuals can all be the same combination, which crossover of two equal
\* parents and a mutation that changes no gene hand on to every generation
geneticAlgorithmPrediction(d, g) == Combos(g.balls, g.pick)

\* the order in which hybridPrediction calls the strategies and for-in
\* visits the predictions
HybridAlgos ==
    <<"frequency", "overdue", "pattern", "statistical", "delta", "markov",
      "genetic", "fourier">>

HybridResults(algo, d, g) ==
    CASE algo \in {"frequency", "overdue", "pattern"} -> StrategyResults(algo, d, g)
      [] algo = "statistical" -> statisticalEquilibriumPrediction(d, g)
      [] algo = "delta" -> deltaSystemPrediction(d, g)
      [] algo = "markov" -> markovChainPrediction(d, g)
      [] algo = "genetic" -> geneticAlgorithmPrediction(d, g)
      [] algo = "fourier" ->
            weightedSelection(FourierCycles(d, g), g.pick, g.balls)

\* the `predictions` objects the eight calls can build
HybridPredictions(d, g) ==
    LET results == {<<algo, HybridResults(algo, d, g)>> :
                        algo \in Range(HybridAlgos)}
    IN  {p \in [Range(HybridAlgos) -> Combos(g.balls, g.pick)] :
            \A r \in results : p[r[1]] \in r[2]}

\* const algoWeights = { frequency: this.weights.frequency, ... }
AlgoWeights(weights) ==
    [frequency |-> weights.frequency, overdue |-> weights.overdue,
     pattern |-> weights.pattern, statistical |-> weights.statistical,
     delta |-> Norm(3, 20), markov |-> Norm(1, 5), genetic |-> Norm(1, 4),
     fourier |-> Norm(3, 20)]

\* algoWeights[algo] || 0.1: 0 and NaN are falsy
WeightOrDefault(algoWeights, algo) ==
    IF REq(algoWeights[algo], R(0)) \/ IsNaN(algoWeights[algo])
    THEN Norm(1, 10) ELSE algoWeights[algo]

\* positionWeight = (pick - idx) / pick, idx from 0
PositionWeight(idx, g) == RDiv(R(g.pick - idx), R(g.pick))

\* what predictions[algo][idx] adds to numberScores[num]
Contribution(algoWeights, algo, idx, g) ==
    RMul(WeightOrDefault(algoWeights, algo), PositionWeight(idx, g))

\* numberScores after the loop over the predictions
HybridScores(predictions, weights, g) ==
    LET algoWeights == AlgoWeights(weights)
    IN  [num \in 1..g.balls |->
            RSum([a \in DOMAIN HybridAlgos |->
                RSum([i \in 1..Len(predictions[HybridAlgos[a]]) |->
                    IF predictions[HybridAlgos[a]][i] = num
                    THEN Contribution(algoWeights, HybridAlgos[a], i - 1, g)
                    ELSE R(0)])])]

HybGame == [balls |-> HybBalls, pick |-> HybPick]

HybDatasets == SeqsUpTo(Draws(HybGame), HybDraws)

\* the predictions objects on every dataset, computed once
HybTable == {<<d, HybridPredictions(d, HybGame)>> : d \in HybDatasets}

HybPredictions(d) == (CHOOSE t \in HybTable : t[1] = d)[2]

\* the objects handed to setWeights: some keys, each with a non-negative
\* weight
WeightArguments ==
    UNION {[ks -> {R(w) : w \in 0..MaxWeight}] : ks \in SUBSET SetKeys}

\* no call is running on the engine
EngineReady == call.pc \in {"idle", "hybrid"} /\ ws.pc \in {"idle", "done"}

\* setWeights(weights) { this.weights = { ...this.weights, ...weights } }
SetWeights ==
    /\ EngineReady
    /\ \E w \in WeightArguments :
        /\ thisWeights' = MergeWeights(thisWeights, w)
        /\ ret' = [op |-> "setWeights", weights |-> w]
    /\ call' = CallIdle
    /\ ws' = WSIdle
    /\ UNCHANGED <<game, data, analyzerData, delta, gen>>

\* hybridPrediction(): the eight strategy calls, none of which returns to
\* the loop when one of them does not return or throws; numberScores;
\* weightedSelection(numberScores, pick).  `factors` holds the value of
\* (algoWeights[algo] || 0.1) for every strategy.  A call that follows a
\* finished call finds the engine as the finished call found it: the calls
\* of a behaviour are told apart by the setWeights calls between them.
CallHybrid ==
    /\ call.pc = "idle"
    /\ ret' = NoRet
    /\ IF HybPredictions(data) = {}
       THEN /\ call' = [pc |-> "strategies"]
            /\ UNCHANGED ws
       ELSE \E predictions \in HybPredictions(data) :
            LET algoWeights == AlgoWeights(thisWeights)
                numberScores == HybridScores(predictions, thisWeights, game)
            IN  /\ call' = [pc |-> "hybrid", predictions |-> predictions,
                             algoWeights |-> algoWeights,
                             factors |-> [algo \in Range(HybridAlgos) |->
                                            WeightOrDefault(algoWeights, algo)],
                             numberScores |-> numberScores]
                /\ ws' = WSStart("hybrid", numberScores, game.pick)
    /\ UNCHANGED <<game, data, analyzerData, delta, gen, thisWeights>>

InitHyb ==
    /\ game = HybGame
    /\ data \in HybDatasets
    /\ analyzerData = data
    /\ ws = WSIdle
    /\ delta = DeltaIdle
    /\ gen = GenIdle
    /\ ret = NoRet
    /\ thisWeights = DefaultWeights
    /\ call = CallIdle

NextHyb == SetWeights \/ CallHybrid \/ WSLoop \/ WSReturn

SpecHyb == InitHyb /\ [][NextHyb]_vars

(***************************************************************************)
(* calculateConfidence on a dataset of identical draws.                    *)
(***************************************************************************)
ConfGame == [balls |-> ConfBalls, pick |-> ConfPick]

\* the draw 1, 2, ..., pick, n times
IdenticalDraws(g, n) == [i \in 1..n |-> [numbers |-> [j \in 1..g.pick |-> j]]]

InitConf ==
    /\ game = ConfGame
    /\ data \in {IdenticalDraws(game, n) : n \in 0..ConfDraws}
    /\ analyzerData = data
    /\ ws = WSIdle
    /\ delta = DeltaIdle
    /\ gen = GenIdle
    /\ ret = NoRet
    /\ thisWeights = DefaultWeights
    /\ call = CallIdle

NextConf == CallConfidenceOfCandidate

SpecConf == InitConf /\ [][NextConf]_vars

(***************************************************************************)
(* The claims.                                                             *)
(***************************************************************************)
\* C1: on a non-empty dataset of valid draws, whenever a strategy returns,
\* the candidate it returns has exactly pick distinct integers, each in
\* 1..balls, in ascending order.
C1_StrategyReturnsValidCandidate ==
    (ret.op \in Strategies /\ data # <<>>)
    => ValidCandidate(ret.numbers, game)

\* C3: deltaSystemPrediction terminates: while its sequence is short, and
\* also when its last number (a number of the game) is too close to balls
\* for any step to stay in range, the loop is left or a number is added.
C3_DeltaLoopEnds ==
    (/\ delta.pc = "loop"
     /\ Len(delta.numbers) < game.pick
     /\ \A i \in DOMAIN delta.numbers : delta.numbers[i] \in 1..game.balls)
    => \E push \in DeltaPushes(delta.numbers, data, game) : push # 0

\* C4: on the empty dataset frequencyBasedPrediction ends through the
\* zero-weight fallback: each iteration of weightedSelection selects a
\* number or takes the fallback, whatever the random draw.
C4_FrequencyOnEmptyDatasetEnds ==
    (/\ ws.pc = "loop"
     /\ ws.algo = "frequency"
     /\ data = <<>>
     /\ Len(ws.selected) < ws.count)
    => WSProgresses

\* C5: weightedSelection never selects a number of weight 0 while a number
\* not yet selected has a positive weight.
C5_NeverSelectsZeroWeightFirst ==
    [][(/\ ws.pc = "loop"
        /\ ws'.pc = "loop"
        /\ Len(ws'.selected) = Len(ws.selected) + 1)
       => LET num == ws'.selected[Len(ws'.selected)]
          IN  ~(/\ REq(ws.available[num], R(0))
                /\ \E m \in DOMAIN ws.available :
                       RLt(R(0), ws.available[m]))]_vars

\* C6: weightedSelection with non-negative weights and count <= balls ends
\* after at most count + 1 iterations (one of them the fallback), never
\* holds a number twice, and returns exactly count numbers in ascending
\* order.
C6_WeightedSelectionEnds ==
    ws.pc \in {"loop", "done"} =>
        /\ IsDistinct(ws.selected)
        /\ ws.iter <= ws.count + 1
        /\ (ws.pc = "loop" /\ Len(ws.selected) < ws.count) => WSProgresses
        /\ ws.pc = "done" =>
            /\ Len(ws.selected) = ws.count
            /\ IsAscending(ws.selected)
            /\ ret.numbers = ws.selected

\* a run that started with some positive weight, ran out of it, took the
\* fallback and returned
C6_Witness ==
    /\ ws.pc = "done"
    /\ ws.algo = "direct"
    /\ ws.count >= 2
    /\ ws.iter = ws.count + 1
    /\ \E n \in DOMAIN ws.weights : RLt(R(0), ws.weights[n])
    /\ \E n \in DOMAIN ws.weights : REq(ws.weights[n], R(0))

\* C7: calculateConfidence returns an integer in [0,100] for every valid
\* candidate and every dataset, the empty one included.
C7_ConfidenceInRange ==
    (ret.op = "confidence" /\ ret.numbers \notin MalformedCandidates(game)) =>
        /\ IsInteger(ret.value)
        /\ RLe(R(0), ret.value)
        /\ RLe(ret.value, R(100))

\* C2: a candidate that violates a requested constraint is placed in the
\* result only after the 100 attempts of its set are used up.
C2_ViolatingCandidateOnlyAfterBudget ==
    (gen.pc = "accept" /\ Violates(gen.constraints, gen.numbers, data, game))
    => gen.attempts = MaxAttempts

\* C8: generateMultipleSets returns exactly count entries, each entry's
\* confidence >= that of the entry after it.
C8_CountEntriesSortedByConfidence ==
    gen.pc = "done" =>
        /\ Len(gen.sets) = gen.count
        /\ \A i \in 1..(Len(gen.sets) - 1) :
               RLe(gen.sets[i + 1].confidence, gen.sets[i].confidence)

\* C9: the loop for one set always ends: the strategy is invoked at most
\* 100 times for the set (the loop is never re-entered after the 100th
\* attempt), and each invocation made by the loop returns a candidate.
C9_LoopForOneSetEnds ==
    gen.pc = "loop" =>
        /\ gen.attempts < MaxAttempts
        /\ GenCandidates(gen.algorithm, data, game) # {}

\* the part of C9 that counts the attempts: at most 100 for one set, and
\* the candidate of the 100th is accepted whatever it is
AttemptsWithinBudget ==
    /\ gen.pc \in {"loop", "accept"} => gen.attempts <= MaxAttempts
    /\ gen.pc = "loop" => gen.attempts < MaxAttempts
    /\ gen.pc = "accept" => gen.attempts >= 1

\* C10: the combinations produced are remembered across the batch: a
\* candidate accepted with the numbers of an earlier set of the batch was
\* accepted on the 100th attempt.
C10_DuplicateOnlyAfterBudget ==
    /\ gen.pc \in {"loop", "accept", "sort"} =>
          gen.usedCombinations =
              {Join(gen.sets[j].numbers) : j \in DOMAIN gen.sets}
    /\ (gen.pc = "accept"
        /\ \E j \in DOMAIN gen.sets : gen.sets[j].numbers = gen.numbers)
       => gen.attempts = MaxAttempts

\* a second set with the numbers of the first, accepted on attempt 100
C10_Witness ==
    /\ gen.pc = "accept"
    /\ gen.attempts = MaxAttempts
    /\ \E j \in DOMAIN gen.sets : gen.sets[j].numbers = gen.numbers

\* C11: the best fitness of the population of generation g+1 is >= the
\* best fitness of the population of generation g: the selection leaves
\* the best of the generation at the head of the elite, and the population
\* the generation ends with has an individual at least as fit.
C11_BestFitnessNeverDrops ==
    [][/\ (call.pc = "select" /\ call'.pc = "children" /\ call.population # <<>>)
          => /\ call'.elite # <<>>
             /\ REq(call'.elite[1].fitness,
                    BestFitness(call.population, data, game))
       /\ (call.pc = "children" /\ call'.pc \in {"select", "final"})
          => RLe(call.elite[1].fitness,
                 BestFitness(call'.population, data, game))]_vars

\* a second generation has ended with a population that holds a child less
\* fit than the best
C11_Witness ==
    /\ call.pc \in {"select", "final"}
    /\ call.gen = 2
    /\ \E i \in DOMAIN call.population :
          RLt(GAFitness(call.population[i], data, game),
              BestFitness(call.population, data, game))

\* C12: on the empty dataset no core operation raises: a strategy call,
\* calculateConfidence or generateMultipleSets that has come back on a
\* dataset of length 0 came back with a value, never with an exception.
C12_NoThrowOnEmptyDataset ==
    data = <<>> => "error" \notin DOMAIN ret

\* C16: in markovChainPrediction, after normalisation a row of the
\* transition matrix sums to 1 when its total of observed transitions is
\* > 0; a row with no observed transition is left all zero (it sums to 0 and
\* was not divided by its total).
C16_MarkovRowsSumToOneOrZero ==
    call.pc = "markov" =>
        \A from \in 1..game.balls :
            LET row == call.transitions[from]
            IN  IF SumSeq(MarkovCounts(data, game)[from]) > 0
                THEN REq(RSum(row), R(1))
                ELSE \A to \in 1..game.balls : row[to] = R(0)

C16_Witness ==
    /\ call.pc = "markov"
    /\ \E from \in 1..game.balls : SumSeq(MarkovCounts(data, game)[from]) > 1
    /\ \E from \in 1..game.balls : SumSeq(MarkovCounts(data, game)[from]) = 0

\* C17: weightedSelection over weights in which number 1 has a weight > 0 and
\* every other number of 1..N has weight 0 includes number 1 in its result
\* when K >= 1, whatever the random draws: as soon as one number is selected,
\* number 1 is among the selected.
C17_OnlyPositiveWeightIsSelected ==
    (/\ ws.pc \in {"loop", "done"}
     /\ ws.algo = "direct"
     /\ RLt(R(0), ws.weights[1])
     /\ \A n \in 2..game.balls : ws.weights[n] = R(0)
     /\ Len(ws.selected) >= 1)
        => Includes(ws.selected, 1)

C17_Witness ==
    /\ ws.pc = "done"
    /\ ws.algo = "direct"
    /\ RLt(R(0), ws.weights[1])
    /\ \A n \in 2..game.balls : ws.weights[n] = R(0)
    /\ ws.count >= 2
    /\ Includes(ws.selected, 1)

\* C19: a fallback path is observable: when weightedSelection returns a list
\* that a run through its uniform-weights fallback returns, either what it
\* returns carries a fallback flag or no run without the fallback, on the
\* same weights and count, returns the same list.
C19_FallbackRunDistinguishable ==
    (ws.pc = "done" /\ ws.algo = "direct") =>
        LET runs == WSRuns(ws.weights, <<>>, ws.count, game.balls, FALSE)
        IN  <<ret.numbers, TRUE>> \in runs =>
                \/ "fallback" \in DOMAIN ret
                \/ <<ret.numbers, FALSE>> \notin runs

\* C18: calculateConfidence, given an array that violates the candidate
\* invariants (a wrong number of elements, a number outside 1..N or a
\* repeated number), fails with a validation error and returns no score.
C18_MalformedCandidateIsRejected ==
    (ret.op = "confidence" /\ ret.numbers \in MalformedCandidates(game)) =>
        /\ "error" \in DOMAIN ret
        /\ "value" \notin DOMAIN ret

\* hot(K) and the K least frequent numbers, as arrays of numbers
HotCandidate(d, g) ==
    LET hot == getHotNumbers(d, g, g.pick)
    IN  [i \in DOMAIN hot |-> hot[i].number]

ColdCandidate(d, g) ==
    LET cold == getColdNumbers(d, g, g.pick)
    IN  [i \in DOMAIN cold |-> cold[i].number]

\* C15: on a non-empty dataset whose per-number frequencies are not all
\* equal, calculateConfidence of the K most frequent numbers is >=
\* calculateConfidence of the K least frequent numbers.
C15_HotAtLeastCold ==
    (/\ ret.op = "confidence"
     /\ data # <<>>
     /\ \E i, j \in 1..game.balls : CountIn(data, i) # CountIn(data, j)
     /\ ret.numbers = HotCandidate(data, game))
        => RLe(calculateConfidence(ColdCandidate(data, game), data, game),
               ret.value)

\* C20: no statistic, strategy, calculateConfidence or generateMultipleSets
\* modifies the dataset: no step of a generateMultipleSets call, which runs
\* the strategy, reads the recent draws and scores the candidate, changes
\* the sequence of draws or the order of the numbers inside a draw.
C20_DatasetNeverModified ==
    [][data' = data]_vars

C20_Witness ==
    /\ gen.pc = "done"
    /\ data # <<>>
    /\ gen.constraints.avoidRepeats
    /\ ~gen.constraints.balanceOddEven
    /\ ~gen.constraints.balanceHighLow
    /\ gen.count >= 1
    /\ Len(gen.sets) = gen.count

\* C13: in hybridPrediction the i-th number (from 0) a strategy returns adds
\* exactly weight(strategy) x (K - i) / K to that number's score, weight
\* being the configured weight whatever its non-negative value: a weight set
\* to 0 adds 0.  Every score is the sum of these contributions.
C13_ContributionIsWeightTimesPosition ==
    call.pc = "hybrid" =>
        \A num \in 1..game.balls :
            REq(call.numberScores[num],
                RSum([a \in DOMAIN HybridAlgos |->
                    RSum([i \in 1..Len(call.predictions[HybridAlgos[a]]) |->
                        IF call.predictions[HybridAlgos[a]][i] = num
                        THEN RMul(call.algoWeights[HybridAlgos[a]],
                                  RDiv(R(game.pick - (i - 1)), R(game.pick)))
                        ELSE R(0)])]))

\* C14: setWeights(w) changes exactly the weights whose keys are in w; no
\* other step changes a weight; and a hybridPrediction call multiplies the
\* positions of each configurable strategy by the weight configured at the
\* time of the call, as it is.
C14_ConfigurationKeptAndUsed ==
    [][/\ IF ret'.op = "setWeights" /\ call'.pc = "idle"
          THEN \A k \in WeightKeys :
                  thisWeights'[k] = IF k \in DOMAIN ret'.weights
                                    THEN ret'.weights[k] ELSE thisWeights[k]
          ELSE thisWeights' = thisWeights
       /\ call'.pc = "hybrid" =>
            \A k \in WeightKeys : call'.factors[k] = thisWeights'[k]]_vars

\* C21: for N = 10, K = 3 and a dataset of five identical draws [1, 2, 3],
\* the frequency-alignment component of calculateConfidence([1, 2, 3]) is 20
\* points.
C21_FrequencyAlignmentIsTwenty ==
    (/\ ret.op = "confidence"
     /\ game = [balls |-> 10, pick |-> 3]
     /\ data = IdenticalDraws(game, 5)
     /\ ret.numbers = <<1, 2, 3>>)
        => REq(FrequencyAlignment(ret.numbers, data, game), R(20))

(***************************************************************************)
(* The statistics of LotteryDataAnalyzer, called on their own.  The draws  *)
(* of these datasets list their numbers in any order: an imported dataset  *)
(* (ManualDataEntry.parseJSON) is handed on as it was written.             *)
(***************************************************************************)
AnGames ==
    {g \in [balls : 2..AnBalls, pick : 1..AnPick] : g.pick < g.balls}

ImportedDraws(g) == {[numbers |-> c] : c \in generateRandomNumbers(g)}

ImportedDatasets(g) == SeqsUpTo(ImportedDraws(g), AnDraws)

\* draw.numbers.forEach(num => { if (lastSeen[num] > index) lastSeen[num] = index })
RECURSIVE SeenInDraw(_, _, _)
SeenInDraw(lastSeen, numbers, index) ==
    IF numbers = <<>> THEN lastSeen
    ELSE SeenInDraw(
            IF lastSeen[Head(numbers)] > index
            THEN [lastSeen EXCEPT ![Head(numbers)] = index]
            ELSE lastSeen,
            Tail(numbers), index)

\* this.data.forEach((draw, index) => ...), from the draw of the given index
RECURSIVE SeenInDraws(_, _, _)
SeenInDraws(lastSeen, d, index) ==
    IF index >= Len(d) THEN lastSeen
    ELSE SeenInDraws(SeenInDraw(lastSeen, d[index + 1].numbers, index),
                     d, index + 1)

\* the mutant of getOverdueNumbers: sorted by a[1] - b[1]
getOverdueNumbersAscending(d, g, count) ==
    LET lastSeen == SeenInDraws([i \in 1..g.balls |-> Len(d)], d, 0)
        sorted == Slice(SortAscEntries(Entries(lastSeen, g.balls)), count)
    IN  [i \in 1..Len(sorted) |->
            [number |-> sorted[i][1], drawsAgo |-> sorted[i][2]]]

getOverdueNumbers(d, g, count) ==
    LET lastSeen == SeenInDraws([i \in 1..g.balls |-> Len(d)], d, 0)
        sorted == Slice(SortDesc(Entries(lastSeen, g.balls)), count)
    IN  [i \in 1..Len(sorted) |->
            [number |-> sorted[i][1], drawsAgo |-> sorted[i][2]]]

AnalyzerReady == NoCallRunning

CallGetNumberFrequency ==
    /\ AnalyzerReady
    /\ ret' = [op |-> "getNumberFrequency",
               value |-> getNumberFrequency(analyzerData, game)]
    /\ UNCHANGED <<game, data, analyzerData, ws, delta, gen, thisWeights, call>>

CallGetExpectedFrequency ==
    /\ AnalyzerReady
    /\ ret' = [op |-> "getExpectedFrequency",
               value |-> getExpectedFrequency(analyzerData, game)]
    /\ UNCHANGED <<game, data, analyzerData, ws, delta, gen, thisWeights, call>>

CallGetSumDistribution ==
    /\ AnalyzerReady
    /\ ret' = [op |-> "getSumDistribution", value |-> getSumDistribution(analyzerData)]
    /\ UNCHANGED <<game, data, analyzerData, ws, delta, gen, thisWeights, call>>

CallGetOverdueNumbers ==
    /\ AnalyzerReady
    /\ \E count \in 0..(game.balls + 1) :
        ret' = [op |-> "getOverdueNumbers", count |-> count,
                value |-> getOverdueNumbers(analyzerData, game, count)]
    /\ UNCHANGED <<game, data, analyzerData, ws, delta, gen, thisWeights, call>>

CallGetCommonPairs ==
    /\ AnalyzerReady
    /\ \E count \in 0..(game.balls + 1) :
        ret' = [op |-> "getCommonPairs", count |-> count,
                value |-> getCommonPairs(analyzerData, count)]
    /\ UNCHANGED <<game, data, analyzerData, ws, delta, gen, thisWeights, call>>

InitAn ==
    /\ game \in AnGames
    /\ data \in ImportedDatasets(game)
    /\ analyzerData = data
    /\ ws = WSIdle
    /\ delta = DeltaIdle
    /\ gen = GenIdle
    /\ ret = NoRet
    /\ thisWeights = DefaultWeights
    /\ call = CallIdle

NextAn ==
    \/ CallGetNumberFrequency
    \/ CallGetExpectedFrequency
    \/ CallGetSumDistribution
    \/ CallGetOverdueNumbers
    \/ CallGetCommonPairs

SpecAn == InitAn /\ [][NextAn]_vars

\* C22: every analyzer statistic tolerates an empty dataset and returns
\* all-zero or neutral finite values: frequency() is 0 for every number,
\* expectedFrequency() is 0, and sumDistribution() has finite min, max and
\* mean and an empty histogram.
C22_EmptyDatasetGivesNeutralValues ==
    data = <<>> =>
        /\ ret.op = "getNumberFrequency" =>
            \A n \in 1..game.balls : ret.value[n] = 0
        /\ ret.op = "getExpectedFrequency" => REq(ret.value, R(0))
        /\ ret.op = "getSumDistribution" =>
            /\ IsFinite(ret.value.min)
            /\ IsFinite(ret.value.max)
            /\ IsFinite(ret.value.avg)
            /\ ret.value.ranges = <<>>

\* the smallest index (from 0) of a draw of the dataset that lists n, the
\* length of the dataset when no draw lists n
SmallestIndexOf(n) ==
    IF \A k \in DOMAIN data : ~Includes(data[k].numbers, n) THEN Len(data)
    ELSE CHOOSE k \in 0..(Len(data) - 1) :
            /\ Includes(data[k + 1].numbers, n)
            /\ \A e \in 1..k : ~Includes(data[e].numbers, n)

\* C23: getOverdueNumbers(n) gives each number 1..N the smallest dataset
\* index at which it appears (the dataset length when it never appears) and
\* returns the first n entries ordered by non-increasing index, equal
\* indices in ascending number order.
C23_OverdueNumbersOrdered ==
    ret.op = "getOverdueNumbers" =>
        LET v == ret.value
            returned == {v[i].number : i \in DOMAIN v}
        IN  /\ Len(v) = IF ret.count < game.balls THEN ret.count ELSE game.balls
            /\ \A i \in DOMAIN v :
                /\ v[i].number \in 1..game.balls
                /\ v[i].drawsAgo = SmallestIndexOf(v[i].number)
            /\ \A i, j \in DOMAIN v :
                i < j => \/ v[i].drawsAgo > v[j].drawsAgo
                         \/ /\ v[i].drawsAgo = v[j].drawsAgo
                            /\ v[i].number < v[j].number
            /\ \A n \in (1..game.balls) \ returned : \A i \in DOMAIN v :
                \/ SmallestIndexOf(n) < v[i].drawsAgo
                \/ /\ SmallestIndexOf(n) = v[i].drawsAgo
                   /\ n > v[i].number

C23_Witness ==
    /\ ret.op = "getOverdueNumbers"
    /\ game = [balls |-> 4, pick |-> 2]
    /\ data = <<[numbers |-> <<3, 1>>], [numbers |-> <<4, 3>>]>>
    /\ ret.count = 3
    /\ ret.value = <<[number |-> 2, drawsAgo |-> 2],
                     [number |-> 4, drawsAgo |-> 1],
                     [number |-> 1, drawsAgo |-> 0]>>

\* C24: getCommonPairs counts unordered pairs: the frequency reported for a
\* pair of numbers a and b is the number of draws that contain both,
\* whatever the order in which the draw lists them, and the pair {a, b}
\* appears at most once in the result.
C24_PairsAreUnordered ==
    (ret.op = "getCommonPairs" /\ Len(ret.value) < ret.count) =>
        LET v == ret.value
        IN  /\ \A i \in DOMAIN v :
                v[i].frequency =
                    Cardinality({k \in DOMAIN data :
                        /\ Includes(data[k].numbers, v[i].numbers[1])
                        /\ Includes(data[k].numbers, v[i].numbers[2])})
            /\ \A i, j \in DOMAIN v :
                Range(v[i].numbers) = Range(v[j].numbers) => i = j

\* the number of draws of the dataset that contain both a and b
DrawsWithBoth(a, b) ==
    Cardinality({k \in DOMAIN data :
        Includes(data[k].numbers, a) /\ Includes(data[k].numbers, b)})

\* frequency(n) + 2 x the sum of the pair scores of n with the selected
GreedyScore(selected, n) ==
    CountIn(data, n) + 2 * SumSeq([i \in DOMAIN selected |->
                                      DrawsWithBoth(selected[i], n)])

\* n is the lowest number outside `selected` of the largest `score`
LowestBest(selected, n, score(_)) ==
    /\ n \in (1..game.balls) \ Range(selected)
    /\ \A m \in (1..game.balls) \ Range(selected) :
        score(m) < score(n) \/ (score(m) = score(n) /\ n <= m)

\* C25: patternBasedPrediction is deterministic: it returns the candidate
\* built from the most frequent number (the lowest on ties) by adding, K - 1
\* times, the unselected number of the largest frequency(n) + 2 x sum of
\* pairScore(selected, n), the lowest such number on equal scores; the loop
\* adds one number per iteration and ends with K numbers.
C25_PatternIsGreedy ==
    /\ Len(PatternSelected(data, game)) = game.pick
    /\ ret.op = "pattern" =>
        \E selected \in generateRandomNumbers(game) :
            /\ LET Frequency(n) == CountIn(data, n)
               IN  LowestBest(<<>>, selected[1], Frequency)
            /\ \A i \in 2..game.pick :
                LET before == SubSeq(selected, 1, i - 1)
                    Score(n) == GreedyScore(before, n)
                IN  LowestBest(before, selected[i], Score)
            /\ IsAscending(ret.numbers)
            /\ Range(ret.numbers) = Range(selected)
            /\ Len(ret.numbers) = game.pick

C25_Witness ==
    /\ ret.op = "pattern"
    /\ game = [balls |-> 4, pick |-> 3]
    /\ data = <<[numbers |-> <<2, 3, 4>>], [numbers |-> <<1, 2, 4>>]>>
    /\ ret.numbers = <<1, 2, 4>>

\* the K-subsets of the key numbers as generateCombinations enumerates
\* them: the ascending K-tuples of positions, in lexicographic order
KeyPositions == Combos(Len(ret.keyNumbers), game.pick)

PositionsBefore(p, q) ==
    \E i \in 1..game.pick :
        /\ p[i] < q[i]
        /\ \A j \in 1..(i - 1) : p[j] = q[j]

SummedFrequency(p) ==
    SumSeq([i \in 1..game.pick |-> CountIn(data, ret.keyNumbers[p[i]])])

\* C26: wheelingSystemPrediction returns a K-subset of the key set whose
\* summed frequency is maximal among the K-subsets of the key set, the
\* first such subset in enumeration order; with the default key set (the
\* K + 3 hottest numbers) the result is the K hottest numbers hot(K), in
\* ascending order.
C26_WheelingReturnsFirstBestSubset ==
    ret.op = "wheeling" =>
        /\ IsAscending(ret.numbers)
        /\ \E p \in KeyPositions :
            /\ Range(ret.numbers) = {ret.keyNumbers[p[i]] : i \in 1..game.pick}
            /\ \A q \in KeyPositions :
                \/ SummedFrequency(q) < SummedFrequency(p)
                \/ /\ SummedFrequency(q) = SummedFrequency(p)
                   /\ (q = p \/ PositionsBefore(p, q))
        /\ ret.default =>
            /\ Len(ret.keyNumbers) = IF game.pick + 3 < game.balls
                                     THEN game.pick + 3 ELSE game.balls
            /\ ret.numbers = SortAsc(HotCandidate(data, game))

C26_Witness ==
    /\ ret.op = "wheeling"
    /\ ~ret.default
    /\ game = [balls |-> 4, pick |-> 2]
    /\ data = <<[numbers |-> <<1, 2>>], [numbers |-> <<1, 3>>]>>
    /\ ret.keyNumbers = <<4, 3, 2, 1>>
    /\ ret.numbers = <<1, 3>>

(***************************************************************************)
(* statisticalEquilibriumPrediction in a game whose sums spread by more    *)
(* than the tolerance of 30, and in a game whose odd counts spread by more *)
(* than 1.                                                                 *)
(***************************************************************************)
StatGames ==
    {[balls |-> StatBalls, pick |-> 1], [balls |-> MaxBalls, pick |-> 2]}

InitStat ==
    /\ game \in StatGames
    /\ data \in SeqsUpTo(Draws(game), StatDraws)
    /\ analyzerData = data
    /\ ws = WSIdle
    /\ delta = DeltaIdle
    /\ gen = GenIdle
    /\ ret = NoRet
    /\ thisWeights = DefaultWeights
    /\ call = CallIdle

NextStat ==
    \/ CallStatistical
    \/ StatAttempt
    \/ StatFallback
    \/ WSLoop
    \/ WSReturn

SpecStat == InitStat /\ [][NextStat]_vars

\* the number of odd numbers of an array of numbers
OddCountOf(numbers) == Cardinality({i \in DOMAIN numbers : numbers[i] % 2 = 1})

\* the number of draws of the dataset that have k odd numbers
DrawsWithOdds(k) ==
    Cardinality({i \in DOMAIN data : OddCountOf(data[i].numbers) = k})

\* the profile of the dataset: an odd count within 1 of the most common one,
\* `odds`, and Len(data) * |sum - mean sum| <= Len(data) * 30
FitsProfile(numbers, odds) ==
    /\ \A k \in 0..game.pick : DrawsWithOdds(k) <= DrawsWithOdds(odds)
    /\ Abs(OddCountOf(numbers) - odds) <= 1
    /\ Abs(Len(data) * SumSeq(numbers)
           - SumSeq([i \in DOMAIN data |-> SumSeq(data[i].numbers)]))
            <= Len(data) * 30

\* C27: statisticalEquilibriumPrediction on a non-empty dataset draws at
\* most 1000 random K-combinations; it returns the first one whose odd count
\* is within 1 of the dataset's most common odd count and whose sum is
\* within 30 of the mean sum; every combination drawn before failed the
\* profile; only after 1000 failures does it return what
\* frequencyBasedPrediction returns.
C27_StatisticalReturnsFirstMatch ==
    data # <<>> =>
        /\ ret.op = "statistical" =>
            /\ "numbers" \in DOMAIN ret
            /\ "targetOdds" \in DOMAIN call
            /\ call.pc \in {"done", "fallback"}
        /\ "targetOdds" \in DOMAIN call =>
            /\ call.attempts <= 1000
            /\ (call.pc = "statistical" /\ call.attempts > 0) =>
                ~FitsProfile(call.candidate, call.targetOdds)
            /\ call.pc = "done" =>
                /\ call.attempts < 1000
                /\ FitsProfile(call.candidate, call.targetOdds)
                /\ IsAscending(ret.numbers)
                /\ Range(ret.numbers) = Range(call.candidate)
                /\ Len(ret.numbers) = game.pick
            /\ call.pc = "fallback" =>
                /\ call.attempts = 1000
                /\ ~FitsProfile(call.candidate, call.targetOdds)
                /\ ws.pc # "idle"
                /\ ws.weights = FrequencyWeights(data, game)
                /\ ret.op = "statistical" =>
                    ws.pc = "done" /\ ret.numbers = ws.selected

C27_Witness ==
    /\ game = [balls |-> 32, pick |-> 1]
    /\ data = <<[numbers |-> <<1>>]>>
    /\ call.pc = "fallback"
    /\ call.attempts = 1000
    /\ call.candidate = <<32>>
    /\ ret.op = "statistical"
    /\ ret.numbers = <<1>>

\* every value of Math.random() pushes a number onto the sample
MCProgresses ==
    LET cdf == MCCdf(data, game)
    IN  \A rand \in {r \in MCRands(cdf) : RLt(r, R(1))} :
            /\ MCFind(cdf, rand) # 0
            /\ ~Includes(call.sample, MCFind(cdf, rand))

\* the returned numbers are those of the first key counted, in the order the
\* keys were produced, whose count is the largest
MCFirstMostCounted ==
    \E i \in DOMAIN call.combinationCounts :
        /\ Join(ret.numbers) = call.combinationCounts[i][1]
        /\ \A j \in DOMAIN call.combinationCounts :
            /\ call.combinationCounts[j][2] <= call.combinationCounts[i][2]
            /\ j < i => call.combinationCounts[j][2] < call.combinationCounts[i][2]

\* C28: monteCarloSimulation(I) on a non-empty valid dataset completes I
\* simulated draws of K distinct numbers each and returns the sorted numbers
\* of a combination counted most often among the I draws, the first produced
\* on ties; every simulated draw ends whatever the random draws are: each
\* random value adds a number to the sample.
C28_MonteCarloCountsAndEnds ==
    (/\ data # <<>>
     /\ "combinationCounts" \in DOMAIN call
     /\ call.iterations >= 1) =>
        /\ (/\ call.pc = "montecarlo"
            /\ call.iter < call.iterations
            /\ Len(call.sample) < game.pick) => MCProgresses
        /\ call.pc = "done" =>
            /\ "numbers" \in DOMAIN ret
            /\ call.iter = call.iterations
            /\ SumSeq([i \in DOMAIN call.combinationCounts |->
                          call.combinationCounts[i][2]]) = call.iterations
            /\ Len(ret.numbers) = game.pick
            /\ IsAscending(ret.numbers)
            /\ MCFirstMostCounted

(***************************************************************************)
(* An engine whose game gets a new dataset after the engine was            *)
(* constructed: updateHistoricalData assigns HISTORICAL_DATA[game], the    *)
(* analyzer keeps the array it read in its constructor.                    *)
(***************************************************************************)
UpdGames == {g \in Games : g.balls <= UpdBalls}

\* if (draws && draws.length > 0) HISTORICAL_DATA[game] = draws, between
\* two calls of the engine
UpdateHistoricalData ==
    /\ NoCallRunning
    /\ \E draws \in Datasets(game) \ {<<>>} : data' = draws
    /\ UNCHANGED <<game, analyzerData, ws, delta, gen, ret, thisWeights, call>>

InitUpd ==
    /\ game \in UpdGames
    /\ data \in Datasets(game)
    /\ analyzerData = data
    /\ ws = WSIdle
    /\ delta = DeltaIdle
    /\ gen = GenIdle
    /\ ret = NoRet
    /\ thisWeights = DefaultWeights
    /\ call = CallIdle

NextUpd ==
    \/ UpdateHistoricalData
    \/ CallFrequency
    \/ CallOverdue
    \/ CallPattern
    \/ CallMarkov
    \/ CallFourier
    \/ WSLoop
    \/ WSReturn

SpecUpd == InitUpd /\ [][NextUpd]_vars

\* C29: after updateHistoricalData has replaced the dataset of the game, an
\* engine constructed before uses the new dataset everywhere: the draws its
\* analyzer reads are the draws of HISTORICAL_DATA[game] that the overdue,
\* Markov and Fourier strategies read, and a frequencyBasedPrediction call
\* weighs the numbers by their frequencies in those draws.
C29_EngineUsesReplacedDataset ==
    /\ analyzerData = data
    /\ (ws.pc # "idle" /\ ws.algo = "frequency") =>
        ws.weights = FrequencyWeights(data, game)

\* a list of exactly K distinct integers in [1, N]
IsIndividual(numbers) ==
    /\ Len(numbers) = game.pick
    /\ IsDistinct(numbers)
    /\ \A i \in DOMAIN numbers : numbers[i] \in 1..game.balls

\* the child starts with the first floor(K / 2) genes of parent 1 and goes
\* on with genes of parent 2 in their order, topped up when they run out
IsCrossoverOf(child, parent1, parent2) ==
    LET crossPoint == game.pick \div 2
        rest == SubSeq(child, crossPoint + 1, Len(child))
        fromParent2 == SelectSeq(parent2,
                           LAMBDA x : ~Includes(SubSeq(parent1, 1, crossPoint), x))
    IN  /\ SubSeq(child, 1, crossPoint) = SubSeq(parent1, 1, crossPoint)
        /\ \A i \in DOMAIN rest :
            IF i <= Len(fromParent2) THEN rest[i] = fromParent2[i]
            ELSE rest[i] \in 1..game.balls

=============================================================================
